---- MODULE Spec2Model ----
(***************************************************************************)
(* The Zeek log reader of zeek-duckdb: the header parser, the type mapper, *)
(* the row decoder and the multi-file scan cursor.                         *)
(*                                                                         *)
(* A char is its byte value (0..255) and a string is a sequence of chars,  *)
(* so that std::string comparison, hex decoding and digit parsing are      *)
(* computed the way the code computes them.                                *)
(***************************************************************************)
EXTENDS Integers, Sequences, FiniteSets, TLC

(***************************************************************************)
(* Bounds of the model.                                                    *)
(***************************************************************************)
\* rows per batch (DuckDB's STANDARD_VECTOR_SIZE is 2048; scaled down)
STANDARD_VECTOR_SIZE == 2
\* number of files a glob expansion returns
MaxFiles == 2
\* pulls made after the scan has reported exhaustion
MaxExtraPulls == 2
\* lines of a stream handed to ParseHeader
MaxStreamLines == 3
\* raw fields of a data line handed to the row decoder
MaxRowFields == 2

(***************************************************************************)
(* Characters and strings.                                                 *)
(***************************************************************************)
Ord(c) ==
  CASE c = "\t" -> 9   [] c = "\n" -> 10  [] c = "\r" -> 13  [] c = " " -> 32
    [] c = "#" -> 35   [] c = "(" -> 40   [] c = ")" -> 41   [] c = "+" -> 43
    [] c = "," -> 44   [] c = "-" -> 45   [] c = "." -> 46
    [] c = "0" -> 48   [] c = "1" -> 49   [] c = "2" -> 50   [] c = "3" -> 51
    [] c = "4" -> 52   [] c = "5" -> 53   [] c = "6" -> 54   [] c = "7" -> 55
    [] c = "8" -> 56   [] c = "9" -> 57
    [] c = "F" -> 70   [] c = "N" -> 78   [] c = "T" -> 84   [] c = "X" -> 88
    [] c = "Z" -> 90
    [] c = "[" -> 91   [] c = "\\" -> 92  [] c = "]" -> 93   [] c = "_" -> 95
    [] c = "a" -> 97   [] c = "b" -> 98   [] c = "c" -> 99   [] c = "d" -> 100
    [] c = "e" -> 101  [] c = "f" -> 102  [] c = "g" -> 103  [] c = "h" -> 104
    [] c = "i" -> 105  [] c = "k" -> 107  [] c = "l" -> 108  [] c = "m" -> 109
    [] c = "n" -> 110  [] c = "o" -> 111  [] c = "p" -> 112  [] c = "q" -> 113
    [] c = "r" -> 114  [] c = "s" -> 115  [] c = "t" -> 116  [] c = "u" -> 117
    [] c = "v" -> 118  [] c = "x" -> 120  [] c = "y" -> 121  [] c = "z" -> 122

\* the string whose characters are the one-character strings of tuple t
RECURSIVE S(_)
S(t) == IF t = <<>> THEN <<>> ELSE <<Ord(Head(t))>> \o S(Tail(t))

c_tab == Ord("\t")
c_nl == Ord("\n")
c_cr == Ord("\r")
c_space == Ord(" ")
c_hash == Ord("#")
c_comma == Ord(",")
c_backslash == Ord("\\")

\* std::string::find(char): the first index (from 1) of c in s, 0 for npos
RECURSIVE FindFrom(_, _, _)
FindFrom(s, c, i) ==
  IF i > Len(s) THEN 0
  ELSE IF s[i] = c THEN i
  ELSE FindFrom(s, c, i + 1)

Find(s, c) == FindFrom(s, c, 1)

\* std::string::rfind(char): the last index (from 1) of c in s, 0 for npos
RECURSIVE RFindFrom(_, _, _)
RFindFrom(s, c, i) ==
  IF i < 1 THEN 0
  ELSE IF s[i] = c THEN i
  ELSE RFindFrom(s, c, i - 1)

RFind(s, c) == RFindFrom(s, c, Len(s))

\* std::string::operator< : lexicographic order on byte values
RECURSIVE StrLess(_, _)
StrLess(a, b) ==
  IF b = <<>> THEN FALSE
  ELSE IF a = <<>> THEN TRUE
  ELSE IF Head(a) # Head(b) THEN Head(a) < Head(b)
  ELSE StrLess(Tail(a), Tail(b))

StartsWith(s, p) == Len(s) >= Len(p) /\ SubSeq(s, 1, Len(p)) = p

\* StringUtil::Split(const string &, char): std::getline on a stringstream.
\* Every delimiter ends a piece; text after the last delimiter is a piece
\* only when it is non-empty, so "a<d>" gives one piece and "" gives none.
RECURSIVE SplitChar(_, _)
SplitChar(str, delimiter) ==
  IF str = <<>> THEN <<>>
  ELSE LET p == Find(str, delimiter)
       IN  IF p = 0 THEN <<str>>
           ELSE <<SubSeq(str, 1, p - 1)>>
                  \o SplitChar(SubSeq(str, p + 1, Len(str)), delimiter)

\* StringUtil::Split(const string &, const string &) with a one-character
\* separator: empty pieces are dropped, and a result with no piece at all
\* becomes the input itself.
RECURSIVE SplitPieces(_, _)
SplitPieces(input, sep) ==
  LET p == Find(input, sep)
      first == IF p = 0 THEN input ELSE SubSeq(input, 1, p - 1)
      keep == IF first = <<>> THEN <<>> ELSE <<first>>
  IN  IF p = 0 THEN keep
      ELSE keep \o SplitPieces(SubSeq(input, p + 1, Len(input)), sep)

SplitStr(input, sep) ==
  LET splits == SplitPieces(input, sep)
  IN  IF splits = <<>> THEN <<input>> ELSE splits

(***************************************************************************)
(* ZeekReader::ReadLine.  A stream is its bytes; a handle's position is    *)
(* the number of bytes already consumed.                                   *)
(***************************************************************************)
RECURSIVE ReadLineFrom(_, _, _)
ReadLineFrom(bytes, pos, line) ==
  IF pos >= Len(bytes)
    THEN [ok |-> line # <<>>, line |-> line, pos |-> pos]
  ELSE LET c == bytes[pos + 1]
       IN  IF c = c_nl THEN [ok |-> TRUE, line |-> line, pos |-> pos + 1]
           ELSE IF c # c_cr THEN ReadLineFrom(bytes, pos + 1, Append(line, c))
           ELSE ReadLineFrom(bytes, pos + 1, line)

ReadLine(bytes, pos) == ReadLineFrom(bytes, pos, <<>>)

(***************************************************************************)
(* ZeekReader::ParseSeparator.                                             *)
(***************************************************************************)
IsSpaceChar(c) == c \in {9, 10, 11, 12, 13, 32}

HexDigit(c) ==
  IF c >= 48 /\ c <= 57 THEN c - 48
  ELSE IF c >= 97 /\ c <= 102 THEN c - 87
  ELSE IF c >= 65 /\ c <= 70 THEN c - 55
  ELSE -1

\* std::stoi(hex, nullptr, 16) on a two-character string: leading white
\* space, then an optional sign, then the longest run of hex digits; with
\* no digit at all it throws std::invalid_argument.
StoiHex(hex) ==
  LET a == HexDigit(hex[1])
      b == HexDigit(hex[2])
  IN  IF a >= 0 THEN [ok |-> TRUE, value |-> IF b >= 0 THEN 16 * a + b ELSE a]
      ELSE IF b < 0 THEN [ok |-> FALSE, value |-> 0]
      ELSE IF IsSpaceChar(hex[1]) \/ hex[1] = Ord("+") THEN [ok |-> TRUE, value |-> b]
      ELSE IF hex[1] = Ord("-") THEN [ok |-> TRUE, value |-> 0 - b]
      ELSE [ok |-> FALSE, value |-> 0]

\* static_cast<char>(int), as a byte value
ToChar(n) == n % 256

\* the loop of ParseSeparator from 0-based index i; ok = FALSE when stoi threw
RECURSIVE ParseSeparatorFrom(_, _, _)
ParseSeparatorFrom(sep_str, i, result) ==
  IF i >= Len(sep_str) THEN [ok |-> TRUE, result |-> result]
  ELSE IF sep_str[i + 1] = c_backslash /\ i + 1 < Len(sep_str)
            /\ sep_str[i + 2] = Ord("x") /\ i + 3 < Len(sep_str)
    THEN LET n == StoiHex(SubSeq(sep_str, i + 3, i + 4))
         IN  IF n.ok
               THEN ParseSeparatorFrom(sep_str, i + 4, Append(result, ToChar(n.value)))
               ELSE [ok |-> FALSE, result |-> result]
  ELSE IF sep_str[i + 1] = c_backslash /\ i + 1 < Len(sep_str)
            /\ sep_str[i + 2] = Ord("t")
    THEN ParseSeparatorFrom(sep_str, i + 2, Append(result, c_tab))
  ELSE IF sep_str[i + 1] = c_backslash /\ i + 1 < Len(sep_str)
            /\ sep_str[i + 2] = Ord("n")
    THEN ParseSeparatorFrom(sep_str, i + 2, Append(result, c_nl))
  ELSE ParseSeparatorFrom(sep_str, i + 1, Append(result, sep_str[i + 1]))

ParseSeparator(sep_str) == ParseSeparatorFrom(sep_str, 0, <<>>)

(***************************************************************************)
(* ZeekHeader and ZeekReader::ParseHeader.                                 *)
(***************************************************************************)
\* idx_t is an unsigned word; the model keeps its wrap-around in a narrower one
IdxBits == 16

IdxWrap(n) == n % (2 ^ IdxBits)

DefaultHeader ==
  [separator |-> c_tab,
   set_separator |-> c_comma,
   empty_field |-> S(<<"(", "e", "m", "p", "t", "y", ")">>),
   unset_field |-> S(<<"-">>),
   path |-> <<>>,
   open_time |-> <<>>,
   fields |-> <<>>,
   types |-> <<>>,
   header_line_count |-> 0]

\* the directive name and value of a header line
DirectiveOf(line) ==
  LET tab_pos == Find(line, c_tab)
      space_pos == IF tab_pos # 0 THEN tab_pos ELSE Find(line, c_space)
  IN  IF space_pos # 0
        THEN [directive |-> SubSeq(line, 2, space_pos - 1),
              value |-> SubSeq(line, space_pos + 1, Len(line))]
        ELSE [directive |-> SubSeq(line, 2, Len(line)), value |-> <<>>]

\* lines 75-78 and 80-83: the first decoded character, when there is one
FirstCharOr(parsed, default) ==
  IF parsed.ok /\ parsed.result # <<>> THEN parsed.result[1] ELSE default

\* the #fields and #types values split on the tab whatever the separator is
ApplyParsedDirectiveTabSplit(header, d) ==
  IF d.directive = S(<<"s", "e", "p", "a", "r", "a", "t", "o", "r">>)
    THEN [ok |-> ParseSeparator(d.value).ok,
          header |-> [header EXCEPT
                        !.separator = FirstCharOr(ParseSeparator(d.value), @)]]
  ELSE IF d.directive = S(<<"s", "e", "t", "_", "s", "e", "p", "a", "r", "a", "t", "o", "r">>)
    THEN [ok |-> ParseSeparator(d.value).ok,
          header |-> [header EXCEPT
                        !.set_separator = FirstCharOr(ParseSeparator(d.value), @)]]
  ELSE IF d.directive = S(<<"e", "m", "p", "t", "y", "_", "f", "i", "e", "l", "d">>)
    THEN [ok |-> TRUE, header |-> [header EXCEPT !.empty_field = d.value]]
  ELSE IF d.directive = S(<<"u", "n", "s", "e", "t", "_", "f", "i", "e", "l", "d">>)
    THEN [ok |-> TRUE, header |-> [header EXCEPT !.unset_field = d.value]]
  ELSE IF d.directive = S(<<"p", "a", "t", "h">>)
    THEN [ok |-> TRUE, header |-> [header EXCEPT !.path = d.value]]
  ELSE IF d.directive = S(<<"o", "p", "e", "n">>)
    THEN [ok |-> TRUE, header |-> [header EXCEPT !.open_time = d.value]]
  ELSE IF d.directive = S(<<"f", "i", "e", "l", "d", "s">>)
    THEN [ok |-> TRUE,
          header |-> [header EXCEPT !.fields = SplitChar(d.value, c_tab)]]
  ELSE IF d.directive = S(<<"t", "y", "p", "e", "s">>)
    THEN [ok |-> TRUE,
          header |-> [header EXCEPT !.types = SplitChar(d.value, c_tab)]]
  ELSE [ok |-> TRUE, header |-> header]

\* lines 74-96: the effect of directive d on the header; ok = FALSE when
\* ParseSeparator threw
ApplyParsedDirective(header, d) ==
  IF d.directive = S(<<"s", "e", "p", "a", "r", "a", "t", "o", "r">>)
    THEN [ok |-> ParseSeparator(d.value).ok,
          header |-> [header EXCEPT
                        !.separator = FirstCharOr(ParseSeparator(d.value), @)]]
  ELSE IF d.directive = S(<<"s", "e", "t", "_", "s", "e", "p", "a", "r", "a", "t", "o", "r">>)
    THEN [ok |-> ParseSeparator(d.value).ok,
          header |-> [header EXCEPT
                        !.set_separator = FirstCharOr(ParseSeparator(d.value), @)]]
  ELSE IF d.directive = S(<<"e", "m", "p", "t", "y", "_", "f", "i", "e", "l", "d">>)
    THEN [ok |-> TRUE, header |-> [header EXCEPT !.empty_field = d.value]]
  ELSE IF d.directive = S(<<"u", "n", "s", "e", "t", "_", "f", "i", "e", "l", "d">>)
    THEN [ok |-> TRUE, header |-> [header EXCEPT !.unset_field = d.value]]
  ELSE IF d.directive = S(<<"p", "a", "t", "h">>)
    THEN [ok |-> TRUE, header |-> [header EXCEPT !.path = d.value]]
  ELSE IF d.directive = S(<<"o", "p", "e", "n">>)
    THEN [ok |-> TRUE, header |-> [header EXCEPT !.open_time = d.value]]
  ELSE IF d.directive = S(<<"f", "i", "e", "l", "d", "s">>)
    THEN [ok |-> TRUE,
          header |-> [header EXCEPT !.fields = SplitChar(d.value, header.separator)]]
  ELSE IF d.directive = S(<<"t", "y", "p", "e", "s">>)
    THEN [ok |-> TRUE,
          header |-> [header EXCEPT !.types = SplitChar(d.value, header.separator)]]
  ELSE [ok |-> TRUE, header |-> header]

ApplyDirective(header, line) == ApplyParsedDirective(header, DirectiveOf(line))

\* the while loop of ParseHeader (lines 54-97): the header, line_count and
\* the stream position when the loop ends; thrown = TRUE when ParseSeparator
\* threw in it.  HeaderLine is the loop body for the line r just read, and
\* HeaderNext goes round the loop once directive a is applied.
RECURSIVE HeaderLoop(_, _, _, _)
HeaderNext(bytes, pos, a, header, line_count) ==
  IF ~a.ok
    THEN [thrown |-> TRUE, header |-> header, line_count |-> line_count, pos |-> pos]
    ELSE HeaderLoop(bytes, pos, a.header, line_count)

HeaderLine(bytes, r, header, line_count) ==
  IF ~r.ok
    THEN [thrown |-> FALSE, header |-> header, line_count |-> line_count, pos |-> r.pos]
  ELSE IF r.line = <<>> \/ r.line[1] # c_hash
    THEN [thrown |-> FALSE, header |-> header, line_count |-> line_count + 1,
          pos |-> r.pos]
  ELSE HeaderNext(bytes, r.pos, ApplyDirective(header, r.line), header, line_count + 1)

HeaderLoop(bytes, pos, header, line_count) ==
  HeaderLine(bytes, ReadLine(bytes, pos), header, line_count)

\* the checks of lines 101-106 left out: only the mismatch is a failure
CheckHeaderNoEmptyChecks(l) ==
  [outcome |->
     IF l.thrown THEN "InvalidArgument"
     ELSE IF Len(l.header.fields) # Len(l.header.types) THEN "Mismatch"
     ELSE "ok",
   header |-> [l.header EXCEPT !.header_line_count = IdxWrap(l.line_count - 1)],
   line_count |-> l.line_count]

\* lines 99-111: header_line_count and the checks, on the result l of the loop
CheckHeader(l) ==
  [outcome |->
     IF l.thrown THEN "InvalidArgument"
     ELSE IF l.header.fields = <<>> THEN "MissingFields"
     ELSE IF l.header.types = <<>> THEN "MissingTypes"
     ELSE IF Len(l.header.fields) # Len(l.header.types) THEN "Mismatch"
     ELSE "ok",
   header |-> [l.header EXCEPT !.header_line_count = IdxWrap(l.line_count - 1)],
   line_count |-> l.line_count]

\* ParseHeader on a freshly opened stream: outcome "ok" with the header, or
\* the failure it raises
ParseHeader(bytes) == CheckHeader(HeaderLoop(bytes, 0, DefaultHeader, 0))

(***************************************************************************)
(* ZeekReader::ExtractInnerType and ZeekReader::ZeekTypeToDuckDBType.      *)
(***************************************************************************)
\* the inner type cut at the first ']' instead of the last
ExtractInnerTypeFirstClose(zeek_type) ==
  LET bracket_start == Find(zeek_type, Ord("["))
      bracket_end == Find(zeek_type, Ord("]"))
  IN  IF bracket_start # 0 /\ bracket_end # 0 /\ bracket_end > bracket_start
        THEN SubSeq(zeek_type, bracket_start + 1, bracket_end - 1)
        ELSE S(<<"s", "t", "r", "i", "n", "g">>)

ExtractInnerType(zeek_type) ==
  LET bracket_start == Find(zeek_type, Ord("["))
      bracket_end == RFind(zeek_type, Ord("]"))
  IN  IF bracket_start # 0 /\ bracket_end # 0 /\ bracket_end > bracket_start
        THEN SubSeq(zeek_type, bracket_start + 1, bracket_end - 1)
        ELSE S(<<"s", "t", "r", "i", "n", "g">>)

\* the mapping with time as a double and the containers as text
ZeekTypeToDuckDBTypeFlat(zeek_type) ==
  IF zeek_type \in {S(<<"t", "i", "m", "e">>), S(<<"i", "n", "t", "e", "r", "v", "a", "l">>),
                    S(<<"d", "o", "u", "b", "l", "e">>)}
    THEN [id |-> "DOUBLE"]
  ELSE IF zeek_type = S(<<"c", "o", "u", "n", "t">>) THEN [id |-> "UBIGINT"]
  ELSE IF zeek_type = S(<<"i", "n", "t">>) THEN [id |-> "BIGINT"]
  ELSE IF zeek_type = S(<<"b", "o", "o", "l">>) THEN [id |-> "BOOLEAN"]
  ELSE [id |-> "VARCHAR"]

RECURSIVE ZeekTypeToDuckDBType(_)
ZeekTypeToDuckDBType(zeek_type) ==
  IF zeek_type = S(<<"t", "i", "m", "e">>) THEN [id |-> "TIMESTAMP_TZ"]
  ELSE IF zeek_type \in {S(<<"i", "n", "t", "e", "r", "v", "a", "l">>),
                         S(<<"d", "o", "u", "b", "l", "e">>)}
    THEN [id |-> "DOUBLE"]
  ELSE IF zeek_type = S(<<"c", "o", "u", "n", "t">>) THEN [id |-> "UBIGINT"]
  ELSE IF zeek_type = S(<<"i", "n", "t">>) THEN [id |-> "BIGINT"]
  ELSE IF zeek_type = S(<<"b", "o", "o", "l">>) THEN [id |-> "BOOLEAN"]
  ELSE IF zeek_type \in {S(<<"s", "t", "r", "i", "n", "g">>), S(<<"a", "d", "d", "r">>),
                         S(<<"s", "u", "b", "n", "e", "t">>), S(<<"p", "o", "r", "t">>),
                         S(<<"e", "n", "u", "m">>)}
    THEN [id |-> "VARCHAR"]
  ELSE IF StartsWith(zeek_type, S(<<"v", "e", "c", "t", "o", "r", "[">>))
          \/ StartsWith(zeek_type, S(<<"s", "e", "t", "[">>))
    THEN [id |-> "LIST", child |-> ZeekTypeToDuckDBType(ExtractInnerType(zeek_type))]
  ELSE [id |-> "VARCHAR"]

(***************************************************************************)
(* std::stoull, std::stoll and std::stod.  A magnitude is the sequence of  *)
(* its decimal digits without leading zeros (zero is <<0>>), so the 64-bit *)
(* ranges are compared exactly.                                            *)
(***************************************************************************)
IsDigit(c) == c >= 48 /\ c <= 57

RECURSIVE SkipSpaces(_, _)
SkipSpaces(s, i) ==
  IF i <= Len(s) /\ IsSpaceChar(s[i]) THEN SkipSpaces(s, i + 1) ELSE i

\* the digits of the longest run of decimal digits of s that starts at index i
RECURSIVE DigitsRun(_, _)
DigitsRun(s, i) ==
  IF i <= Len(s) /\ IsDigit(s[i]) THEN <<s[i] - 48>> \o DigitsRun(s, i + 1) ELSE <<>>

RECURSIVE StripLeadingZeros(_)
StripLeadingZeros(d) ==
  IF Len(d) > 1 /\ d[1] = 0 THEN StripLeadingZeros(Tail(d)) ELSE d

RECURSIVE StripTrailingZeros(_)
StripTrailingZeros(d) ==
  IF d # <<>> /\ d[Len(d)] = 0 THEN StripTrailingZeros(SubSeq(d, 1, Len(d) - 1)) ELSE d

RECURSIVE DigitsLess(_, _)
DigitsLess(a, b) ==
  IF Len(a) # Len(b) THEN Len(a) < Len(b)
  ELSE IF a = <<>> THEN FALSE
  ELSE IF a[1] # b[1] THEN a[1] < b[1]
  ELSE DigitsLess(Tail(a), Tail(b))

\* ULLONG_MAX, LLONG_MAX and the magnitude of LLONG_MIN
U64MaxDigits == <<1, 8, 4, 4, 6, 7, 4, 4, 0, 7, 3, 7, 0, 9, 5, 5, 1, 6, 1, 5>>
I64MaxDigits == <<9, 2, 2, 3, 3, 7, 2, 0, 3, 6, 8, 5, 4, 7, 7, 5, 8, 0, 7>>
I64MinDigits == <<9, 2, 2, 3, 3, 7, 2, 0, 3, 6, 8, 5, 4, 7, 7, 5, 8, 0, 8>>

\* whether s has a sign character at index i
SignAt(s, i) == i <= Len(s) /\ s[i] \in {Ord("+"), Ord("-")}

\* the sign and digit run that strtol-like parsing finds in s from index i,
\* after the white space: an optional sign, then digits; the rest is ignored
IntPrefixAt(s, i) ==
  [neg |-> SignAt(s, i) /\ s[i] = Ord("-"),
   run |-> DigitsRun(s, IF SignAt(s, i) THEN i + 1 ELSE i)]

IntPrefix(s) == IntPrefixAt(s, SkipSpaces(s, 1))

\* std::stoull: ok = FALSE when it throws.  A negative input is negated in
\* the unsigned type: the value is 2^64 - digits when wrapped is TRUE.
StoullOf(p, digits) ==
  [ok |-> p.run # <<>> /\ ~DigitsLess(U64MaxDigits, digits),
   wrapped |-> p.neg /\ digits # <<0>>,
   digits |-> digits]

Stoull(s) == StoullOf(IntPrefix(s), StripLeadingZeros(IntPrefix(s).run))

\* std::stoll: ok = FALSE when it throws
StollOf(p, digits) ==
  [ok |-> p.run # <<>>
          /\ ~DigitsLess(IF p.neg THEN I64MinDigits ELSE I64MaxDigits, digits),
   neg |-> p.neg /\ digits # <<0>>,
   digits |-> digits]

Stoll(s) == StollOf(IntPrefix(s), StripLeadingZeros(IntPrefix(s).run))

\* std::stod on decimal text: white space, an optional sign, digits with an
\* optional fraction; ok = FALSE when it throws.  The texts of the model
\* carry no exponent, hexadecimal, inf or nan spelling.
StodOf(s, p, k) ==
  [ok |-> p.run # <<>> \/ (k <= Len(s) /\ s[k] = Ord(".") /\ DigitsRun(s, k + 1) # <<>>),
   neg |-> p.neg,
   int |-> StripLeadingZeros(IF p.run = <<>> THEN <<0>> ELSE p.run),
   frac |-> IF k <= Len(s) /\ s[k] = Ord(".")
              THEN StripTrailingZeros(DigitsRun(s, k + 1)) ELSE <<>>]

\* k is the index after the sign and the integer digits
StodAt(s, i, p) == StodOf(s, p, (IF SignAt(s, i) THEN i + 1 ELSE i) + Len(p.run))

Stod(s) == StodAt(s, SkipSpaces(s, 1), IntPrefix(s))

\* EpochSecondsToTimestampTZ: the seconds times 1000000, truncated to an
\* integer number of microseconds (sign and magnitude)
MicrosDigits(d) ==
  StripLeadingZeros(d.int \o SubSeq(d.frac \o <<0, 0, 0, 0, 0, 0>>, 1, 6))

\* the instant of the whole seconds, the fraction dropped
EpochSecondsToTimestampTZWhole(d) ==
  [neg |-> d.neg /\ d.int # <<0>>,
   micros |-> StripLeadingZeros(d.int \o <<0, 0, 0, 0, 0, 0>>)]

EpochSecondsToTimestampTZ(d) ==
  [neg |-> d.neg /\ MicrosDigits(d) # <<0>>, micros |-> MicrosDigits(d)]

(***************************************************************************)
(* Decoded values: what the try blocks of the two switches store.          *)
(***************************************************************************)
NullValue == [k |-> "null"]

DoubleOf(d) ==
  IF d.ok THEN [k |-> "double", neg |-> d.neg, int |-> d.int, frac |-> d.frac]
  ELSE NullValue

DoubleValue(s) == DoubleOf(Stod(s))

UBigintOf(n) ==
  IF n.ok THEN [k |-> "ubigint", wrapped |-> n.wrapped, digits |-> n.digits]
  ELSE NullValue

UBigintValue(s) == UBigintOf(Stoull(s))

BigintOf(n) ==
  IF n.ok THEN [k |-> "bigint", neg |-> n.neg, digits |-> n.digits] ELSE NullValue

BigintValue(s) == BigintOf(Stoll(s))

BooleanValue(s) == [k |-> "boolean", v |-> s = S(<<"T">>) \/ s = S(<<"t", "r", "u", "e">>)]

TimestampOf(d, t) ==
  IF d.ok THEN [k |-> "timestamp_tz", neg |-> t.neg, micros |-> t.micros]
  ELSE NullValue

TimestampValue(s) == TimestampOf(Stod(s), EpochSecondsToTimestampTZ(Stod(s)))

VarcharValue(s) == [k |-> "varchar", s |-> s]

(***************************************************************************)
(* AppendListValue.                                                        *)
(***************************************************************************)

\* lines 105-108 on a child vector of type LIST (the switch of lines 68-109
\* has no LIST case, so a child type LIST(T) takes the default branch): a
\* string_t is stored where the vector holds a list_entry_t, and
\* StringVector::AddString is called on a vector whose buffer is a list buffer
StringInListSlot(elem) == [k |-> "string_t_in_list_slot", s |-> elem]

\* What a reader of such a slot finds is not fixed by the source: a build with
\* assertions stops in AddString, another build reads the bytes of the
\* string_t as offset and length of a list whose child vector was never
\* written, a list of no entry or of entries that are not there.
ListSlotReadings == {"internal_error", "empty_list", "garbage_list"}

ReadSlot(reading) ==
  IF reading = "empty_list" THEN [k |-> "list", elems |-> <<>>]
  ELSE [k |-> reading]

\* the row as its reader finds it
ReadValue(v, reading) ==
  IF v.k = "list"
    THEN [k |-> "list",
          elems |-> [i \in 1..Len(v.elems) |->
                       IF v.elems[i].k = "string_t_in_list_slot"
                         THEN ReadSlot(reading) ELSE v.elems[i]]]
    ELSE v

ReadRow(row, reading) == [c \in 1..Len(row) |-> ReadValue(row[c], reading)]

\* the readings open to a row of these column types: a choice exists only
\* where a column is a list of lists
HasNestedList(column_types) ==
  \E c \in 1..Len(column_types) :
    column_types[c].id = "LIST" /\ column_types[c].child.id = "LIST"

ReadingsFor(column_types) ==
  IF HasNestedList(column_types) THEN ListSlotReadings ELSE {"as_written"}

\* the switch on the child type: what is stored for one non-sentinel element.
\* A child type with no case of its own (a nested list) takes the default.
ConvertElement(child_type, elem) ==
  CASE child_type.id = "DOUBLE" -> DoubleValue(elem)
    [] child_type.id = "UBIGINT" -> UBigintValue(elem)
    [] child_type.id = "BIGINT" -> BigintValue(elem)
    [] child_type.id = "BOOLEAN" -> BooleanValue(elem)
    [] child_type.id = "TIMESTAMP_TZ" -> TimestampValue(elem)
    [] child_type.id = "LIST" -> StringInListSlot(elem)
    [] OTHER -> VarcharValue(elem)

\* an element converted without the sentinel test of lines 63-66
ListElementNoNull(child_type, elem, unset_field, empty_field) ==
  ConvertElement(child_type, elem)

ListElement(child_type, elem, unset_field, empty_field) ==
  IF elem = unset_field \/ elem = empty_field THEN NullValue
  ELSE ConvertElement(child_type, elem)

\* the loop over the elements
RECURSIVE ListElements(_, _, _, _)
ListElements(child_type, elements, unset_field, empty_field) ==
  IF elements = <<>> THEN <<>>
  ELSE <<ListElement(child_type, Head(elements), unset_field, empty_field)>>
         \o ListElements(child_type, Tail(elements), unset_field, empty_field)

AppendListValue(field_value, set_separator, child_type, unset_field, empty_field) ==
  IF field_value = unset_field \/ field_value = empty_field
    THEN [k |-> "list", elems |-> <<>>]
  ELSE [k |-> "list",
        elems |-> ListElements(child_type, SplitStr(field_value, set_separator),
                               unset_field, empty_field)]

(***************************************************************************)
(* The row decoder of ZeekScanExecute.                                     *)
(***************************************************************************)
\* the switch on the column type: what is stored for one non-sentinel field
ConvertField(column_type, field_value, header) ==
  CASE column_type.id = "DOUBLE" -> DoubleValue(field_value)
    [] column_type.id = "UBIGINT" -> UBigintValue(field_value)
    [] column_type.id = "BIGINT" -> BigintValue(field_value)
    [] column_type.id = "BOOLEAN" -> BooleanValue(field_value)
    [] column_type.id = "TIMESTAMP_TZ" -> TimestampValue(field_value)
    [] column_type.id = "LIST" ->
         AppendListValue(field_value, header.set_separator, column_type.child,
                         header.unset_field, header.empty_field)
    [] OTHER -> VarcharValue(field_value)

\* DecodeColumn without the sentinel test of lines 204-207
DecodeColumnNoSentinel(col_idx, fields, header, column_types) ==
  IF col_idx > Len(fields) THEN NullValue
  ELSE ConvertField(column_types[col_idx], fields[col_idx], header)

\* DecodeColumn giving up the whole of a short row
DecodeColumnShortRowNull(col_idx, fields, header, column_types) ==
  IF Len(fields) < Len(column_types) THEN NullValue
  ELSE IF fields[col_idx] = header.unset_field \/ fields[col_idx] = header.empty_field
    THEN NullValue
  ELSE ConvertField(column_types[col_idx], fields[col_idx], header)

\* one column of one row: short row, then sentinel, then conversion
DecodeColumn(col_idx, fields, header, column_types) ==
  IF col_idx > Len(fields) THEN NullValue
  ELSE IF fields[col_idx] = header.unset_field \/ fields[col_idx] = header.empty_field
    THEN NullValue
  ELSE ConvertField(column_types[col_idx], fields[col_idx], header)

\* the loop over the data columns, from column col_idx on
RECURSIVE DecodeColumns(_, _, _, _)
DecodeColumns(col_idx, fields, header, column_types) ==
  IF col_idx > Len(column_types) THEN <<>>
  ELSE <<DecodeColumn(col_idx, fields, header, column_types)>>
         \o DecodeColumns(col_idx + 1, fields, header, column_types)

\* the data columns of the row decoded from one data line
DecodeRow(line, header, column_types) ==
  DecodeColumns(1, SplitChar(line, header.separator), header, column_types)

(***************************************************************************)
(* The state of a scan.                                                    *)
(***************************************************************************)
VARIABLES
  fs,              \* the file system: path -> bytes of the file
  glob_result,     \* the paths in the order fs.GlobFiles returned them
  filename_param,  \* the named parameter "filename"
  pc,              \* where the table function is: "bind", "init", "idle", ...
  bind_data,       \* ZeekScanBindData
  state,           \* ZeekScanGlobalState
  new_handle,      \* the handle fs.OpenFile returned, not yet stored in state
  row_count,       \* row_count of the running ZeekScanExecute
  output,          \* the DataChunk of the last or the running pull
  error,           \* the exception that ended the scan, "none" without one
  opened,          \* history: the paths the cursor opened, in order
  returned,        \* history: <<path, line number>> of every row returned
  pulls,           \* history: the number of pulls that returned
  extra_pulls,     \* history: the pulls made after finished was set
  input,           \* the argument of a function applied on its own
  result           \* what that function gave

vars == <<fs, glob_result, filename_param, pc, bind_data, state, new_handle,
          row_count, output, error, opened, returned, pulls, extra_pulls,
          input, result>>

scan_vars == <<fs, glob_result, filename_param, pc, bind_data, state, new_handle,
               row_count, output, error, opened, returned, pulls, extra_pulls>>

NoHandle == [open |-> FALSE, path |-> <<>>, pos |-> 0, lines_read |-> 0]

\* fs.OpenFile: a fresh handle at the start of the file (lines_read is
\* history: the ReadLine calls on the handle that returned a line)
OpenFile(path) == [open |-> TRUE, path |-> path, pos |-> 0, lines_read |-> 0]

\* ZeekReader::ReadLine on a handle: the line and the handle afterwards
ReadLineOn(handle) ==
  LET r == ReadLine(fs[handle.path], handle.pos)
  IN  [ok |-> r.ok, line |-> r.line,
       handle |-> [handle EXCEPT !.pos = r.pos,
                                 !.lines_read = IF r.ok THEN @ + 1 ELSE @]]

InitialBindData ==
  [file_paths |-> <<>>, header |-> DefaultHeader, column_types |-> <<>>,
   filename_column |-> FALSE]

InitialGlobalState ==
  [current_file_idx |-> 0, file_handle |-> NoHandle, finished |-> FALSE,
   current_file_path |-> <<>>]

(***************************************************************************)
(* ZeekScanBind.                                                           *)
(***************************************************************************)
RECURSIVE InsertSorted(_, _)
InsertSorted(x, seq) ==
  IF seq = <<>> THEN <<x>>
  ELSE IF StrLess(x, Head(seq)) THEN <<x>> \o seq
  ELSE <<Head(seq)>> \o InsertSorted(x, Tail(seq))

\* the paths left in the order of the glob expansion
SortPathsNone(paths) == paths

\* std::sort of the paths
RECURSIVE SortPaths(_)
SortPaths(paths) ==
  IF paths = <<>> THEN <<>> ELSE InsertSorted(Head(paths), SortPaths(Tail(paths)))

\* the resolved column types of a parsed header
RECURSIVE ResolveTypes(_)
ResolveTypes(types) ==
  IF types = <<>> THEN <<>>
  ELSE <<ZeekTypeToDuckDBType(Head(types))>> \o ResolveTypes(Tail(types))

ColumnTypes(header) == ResolveTypes(SubSeq(header.types, 1, Len(header.fields)))

\* ZeekScanBind keeping the failure of ParseHeader for later
BindHeaderDeferred(file_paths, h) ==
  /\ bind_data' = [file_paths |-> file_paths,
                   header |-> h.header,
                   column_types |-> <<>>,
                   filename_column |-> filename_param]
  /\ pc' = "init"
  /\ error' = IF h.outcome = "ok" THEN error ELSE h.outcome

\* lines 136-152 with the sorted paths and what ParseHeader gave for the
\* first of them
BindHeader(file_paths, h) ==
  IF h.outcome = "ok"
    THEN /\ bind_data' = [file_paths |-> file_paths,
                          header |-> h.header,
                          column_types |-> ColumnTypes(h.header),
                          filename_column |-> filename_param]
         /\ pc' = "init"
         /\ error' = error
    ELSE /\ bind_data' = bind_data
         /\ pc' = "failed"
         /\ error' = h.outcome

BindPaths(file_paths) == BindHeader(file_paths, ParseHeader(fs[file_paths[1]]))

Bind ==
  /\ pc = "bind"
  /\ BindPaths(SortPaths(glob_result))
  /\ UNCHANGED <<fs, glob_result, filename_param, state, new_handle, row_count,
                 output, opened, returned, pulls, extra_pulls, input, result>>

(***************************************************************************)
(* OpenNextFile, in two steps: the call of fs.OpenFile, which returns the  *)
(* new handle while state.file_handle still holds the old one, and the     *)
(* assignment to state.file_handle followed by the skip of the preamble.   *)
(***************************************************************************)
\* OpenNextFile recording the path of the first file only
OpenNextFileOpenStalePath(st) ==
  /\ state' = [st EXCEPT
                 !.current_file_path =
                   IF st.current_file_idx = 0 THEN bind_data.file_paths[1] ELSE @,
                 !.current_file_idx = @ + 1]
  /\ new_handle' = OpenFile(bind_data.file_paths[st.current_file_idx + 1])
  /\ opened' = Append(opened, bind_data.file_paths[st.current_file_idx + 1])

\* lines 18-22 from scan state st: the path, the index and the call of
\* fs.OpenFile
OpenNextFileOpen(st) ==
  /\ state' = [st EXCEPT
                 !.current_file_path = bind_data.file_paths[st.current_file_idx + 1],
                 !.current_file_idx = @ + 1]
  /\ new_handle' = OpenFile(bind_data.file_paths[st.current_file_idx + 1])
  /\ opened' = Append(opened, bind_data.file_paths[st.current_file_idx + 1])

\* lines 24-30: ReadLine up to lines_to_skip times, stopping at end of stream
RECURSIVE SkipLines(_, _)
SkipLines(handle, lines_to_skip) ==
  IF lines_to_skip = 0 THEN handle
  ELSE LET r == ReadLineOn(handle)
       IN  IF ~r.ok THEN r.handle ELSE SkipLines(r.handle, lines_to_skip - 1)

\* the preamble skipped in the first file only
SkipPreambleFirstOnly(handle) ==
  IF state.current_file_idx = 1
    THEN SkipLines(handle, bind_data.header.header_line_count)
    ELSE handle

\* a skip that looks at the lines: it stops before the first line that is
\* no directive
RECURSIVE SkipDirectiveLines(_, _)
SkipDirectiveLines(handle, lines_to_skip) ==
  IF lines_to_skip = 0 THEN handle
  ELSE IF ~ReadLineOn(handle).ok THEN ReadLineOn(handle).handle
  ELSE IF ReadLineOn(handle).line = <<>> THEN handle
  ELSE IF ReadLineOn(handle).line[1] # c_hash THEN handle
  ELSE SkipDirectiveLines(ReadLineOn(handle).handle, lines_to_skip - 1)

SkipPreambleDirectivesOnly(handle) ==
  SkipDirectiveLines(handle, bind_data.header.header_line_count)

\* the handle stored in state once the preamble of the new file is skipped
SkipPreamble(handle) == SkipLines(handle, bind_data.header.header_line_count)

\* OpenNextFile giving up the scan when the preamble skip meets the end of
\* the file
OpenNextFileAssignStopsOnShort ==
  /\ pc \in {"init_assign", "exec_assign"}
  /\ IF SkipPreamble(new_handle).lines_read < bind_data.header.header_line_count
       THEN /\ state' = [state EXCEPT !.file_handle = SkipPreamble(new_handle),
                                      !.finished = TRUE]
            /\ pc' = "idle"
            /\ pulls' = IF pc = "exec_assign" THEN pulls + 1 ELSE pulls
       ELSE /\ state' = [state EXCEPT !.file_handle = SkipPreamble(new_handle)]
            /\ pc' = IF pc = "init_assign" THEN "idle" ELSE "loop"
            /\ pulls' = pulls
  /\ new_handle' = NoHandle
  /\ UNCHANGED <<fs, glob_result, filename_param, bind_data, row_count, output,
                 error, opened, returned, extra_pulls, input, result>>

\* OpenNextFile reading the header of the file it opens
OpenNextFileAssignReparse ==
  /\ pc \in {"init_assign", "exec_assign"}
  /\ state' = [state EXCEPT !.file_handle = SkipPreamble(new_handle)]
  /\ bind_data' = [bind_data EXCEPT
                     !.header = ParseHeader(fs[new_handle.path]).header]
  /\ new_handle' = NoHandle
  /\ pc' = IF pc = "init_assign" THEN "idle" ELSE "loop"
  /\ UNCHANGED <<fs, glob_result, filename_param, row_count, output,
                 error, opened, returned, pulls, extra_pulls, input, result>>

OpenNextFileAssign ==
  /\ pc \in {"init_assign", "exec_assign"}
  /\ state' = [state EXCEPT !.file_handle = SkipPreamble(new_handle)]
  /\ new_handle' = NoHandle
  /\ pc' = IF pc = "init_assign" THEN "idle" ELSE "loop"
  /\ UNCHANGED <<fs, glob_result, filename_param, bind_data, row_count, output,
                 error, opened, returned, pulls, extra_pulls, input, result>>

(***************************************************************************)
(* ZeekScanInitGlobal.                                                     *)
(***************************************************************************)
InitGlobal ==
  /\ pc = "init"
  /\ IF state.current_file_idx < Len(bind_data.file_paths)
       THEN OpenNextFileOpen(state) /\ pc' = "init_assign"
       ELSE /\ state' = [state EXCEPT !.finished = TRUE]
            /\ pc' = "idle"
            /\ UNCHANGED <<new_handle, opened>>
  /\ UNCHANGED <<fs, glob_result, filename_param, bind_data, row_count, output,
                 error, returned, pulls, extra_pulls, input, result>>

(***************************************************************************)
(* ZeekScanExecute: one pull.  The loop runs one iteration per step.       *)
(***************************************************************************)
\* the row stored for a data line: the data columns, the filename column
\* when enabled, and (history) the line the row came from
RowOf(line, handle) ==
  [data |-> DecodeRow(line, bind_data.header, bind_data.column_types),
   filename |-> IF bind_data.filename_column THEN <<state.current_file_path>> ELSE <<>>,
   src |-> <<handle.path, handle.lines_read>>]

RECURSIVE SrcOf(_)
SrcOf(rows) == IF rows = <<>> THEN <<>> ELSE <<Head(rows).src>> \o SrcOf(Tail(rows))

\* the loop condition with <= for <
LoopConditionOffByOne == row_count <= STANDARD_VECTOR_SIZE

\* line 179: the condition of the while loop
LoopCondition == row_count < STANDARD_VECTOR_SIZE

\* the test of line 188 without its '#' part
IsDataLineNoHash(line) == line # <<>>

\* line 188: whether a line read in the loop is handed to the row decoder
IsDataLine(line) == IF line = <<>> THEN FALSE ELSE line[1] # c_hash

\* a pull on a finished scan that returns without output.SetCardinality(0)
ExecuteFinishedStale ==
  /\ pc = "idle"
  /\ state.finished
  /\ extra_pulls < MaxExtraPulls
  /\ pulls' = pulls + 1
  /\ extra_pulls' = extra_pulls + 1
  /\ UNCHANGED <<fs, glob_result, filename_param, pc, bind_data, state, new_handle,
                 row_count, output, error, opened, returned, input, result>>

\* lines 170-173: a pull on a finished scan
ExecuteFinished ==
  /\ pc = "idle"
  /\ state.finished
  /\ extra_pulls < MaxExtraPulls
  /\ output' = <<>>
  /\ pulls' = pulls + 1
  /\ extra_pulls' = extra_pulls + 1
  /\ UNCHANGED <<fs, glob_result, filename_param, pc, bind_data, state, new_handle,
                 row_count, error, opened, returned, input, result>>

\* lines 175-177: a pull on a scan that is not finished enters the loop
ExecuteBegin ==
  /\ pc = "idle"
  /\ ~state.finished
  /\ row_count' = 0
  /\ output' = <<>>
  /\ pc' = "loop"
  /\ UNCHANGED <<fs, glob_result, filename_param, bind_data, state, new_handle,
                 error, opened, returned, pulls, extra_pulls, input, result>>

\* line 179 false, line 271: the batch is full and the pull returns
ExecuteReturnFull ==
  /\ pc = "loop"
  /\ ~LoopCondition
  /\ pc' = "idle"
  /\ returned' = returned \o SrcOf(output)
  /\ pulls' = pulls + 1
  /\ UNCHANGED <<fs, glob_result, filename_param, bind_data, state, new_handle,
                 row_count, output, error, opened, extra_pulls, input, result>>

\* the end of the active file ends the scan, whatever files remain
ExecuteEndOfFileSingle ==
  /\ pc = "loop"
  /\ LoopCondition
  /\ ~ReadLineOn(state.file_handle).ok
  /\ state' = [state EXCEPT
                 !.file_handle = ReadLineOn(state.file_handle).handle,
                 !.finished = TRUE]
  /\ pc' = "idle"
  /\ returned' = returned \o SrcOf(output)
  /\ pulls' = pulls + 1
  /\ UNCHANGED <<fs, glob_result, filename_param, bind_data, new_handle, row_count,
                 output, error, opened, extra_pulls, input, result>>

\* the end of the last file with an empty batch starts the file again
\* instead of finishing the scan
ExecuteEndOfFileRetryEmpty ==
  /\ pc = "loop"
  /\ LoopCondition
  /\ ~ReadLineOn(state.file_handle).ok
  /\ IF state.current_file_idx < Len(bind_data.file_paths)
       THEN /\ OpenNextFileOpen([state EXCEPT
                                   !.file_handle = ReadLineOn(state.file_handle).handle])
            /\ pc' = "exec_assign"
            /\ UNCHANGED <<returned, pulls>>
       ELSE IF row_count = 0
         THEN /\ state' = [state EXCEPT
                             !.file_handle = OpenFile(state.file_handle.path)]
              /\ UNCHANGED <<pc, returned, pulls, new_handle, opened>>
         ELSE /\ state' = [state EXCEPT
                             !.file_handle = ReadLineOn(state.file_handle).handle,
                             !.finished = TRUE]
              /\ pc' = "idle"
              /\ returned' = returned \o SrcOf(output)
              /\ pulls' = pulls + 1
              /\ UNCHANGED <<new_handle, opened>>
  /\ UNCHANGED <<fs, glob_result, filename_param, bind_data, row_count, output,
                 error, extra_pulls, input, result>>

\* lines 180-186: ReadLine reports the end of the active file; the next
\* file is opened, or the scan is finished and the pull returns
ExecuteEndOfFile ==
  /\ pc = "loop"
  /\ LoopCondition
  /\ ~ReadLineOn(state.file_handle).ok
  /\ IF state.current_file_idx < Len(bind_data.file_paths)
       THEN /\ OpenNextFileOpen([state EXCEPT
                                   !.file_handle = ReadLineOn(state.file_handle).handle])
            /\ pc' = "exec_assign"
            /\ UNCHANGED <<returned, pulls>>
       ELSE /\ state' = [state EXCEPT
                           !.file_handle = ReadLineOn(state.file_handle).handle,
                           !.finished = TRUE]
            /\ pc' = "idle"
            /\ returned' = returned \o SrcOf(output)
            /\ pulls' = pulls + 1
            /\ UNCHANGED <<new_handle, opened>>
  /\ UNCHANGED <<fs, glob_result, filename_param, bind_data, row_count, output,
                 error, extra_pulls, input, result>>

\* lines 188-190: an empty line or a line that starts with '#' is dropped
ExecuteSkipLine ==
  /\ pc = "loop"
  /\ LoopCondition
  /\ LET r == ReadLineOn(state.file_handle)
     IN  /\ r.ok
         /\ ~IsDataLine(r.line)
         /\ state' = [state EXCEPT !.file_handle = r.handle]
  /\ UNCHANGED <<fs, glob_result, filename_param, pc, bind_data, new_handle,
                 row_count, output, error, opened, returned, pulls, extra_pulls,
                 input, result>>

\* lines 192-268: a data line is decoded into row row_count of the batch
ExecuteDecodeLine ==
  /\ pc = "loop"
  /\ LoopCondition
  /\ LET r == ReadLineOn(state.file_handle)
     IN  /\ r.ok
         /\ IsDataLine(r.line)
         /\ state' = [state EXCEPT !.file_handle = r.handle]
         /\ \E reading \in ReadingsFor(bind_data.column_types) :
              output' = Append(output, [RowOf(r.line, r.handle) EXCEPT
                                          !.data = ReadRow(@, reading)])
  /\ row_count' = row_count + 1
  /\ UNCHANGED <<fs, glob_result, filename_param, pc, bind_data, new_handle,
                 error, opened, returned, pulls, extra_pulls, input, result>>

(***************************************************************************)
(* The files of the scans that are checked.                                *)
(***************************************************************************)
\* every line followed by a line feed
RECURSIVE Text(_)
Text(lines) == IF lines = <<>> THEN <<>> ELSE Head(lines) \o <<c_nl>> \o Text(Tail(lines))

\* every line followed by carriage return and line feed
RECURSIVE TextCrLf(_)
TextCrLf(lines) ==
  IF lines = <<>> THEN <<>> ELSE Head(lines) \o <<c_cr, c_nl>> \o TextCrLf(Tail(lines))

L_fields == S(<<"#", "f", "i", "e", "l", "d", "s", "\t", "a", "\t", "b">>)
L_types == S(<<"#", "t", "y", "p", "e", "s", "\t", "c", "o", "u", "n", "t", "\t",
               "v", "e", "c", "t", "o", "r", "[", "s", "t", "r", "i", "n", "g", "]">>)
L_types1 == S(<<"#", "t", "y", "p", "e", "s", "\t", "c", "o", "u", "n", "t">>)
L_path == S(<<"#", "p", "a", "t", "h", "\t", "c", "o", "n", "n">>)
L_close == S(<<"#", "c", "l", "o", "s", "e", "\t", "2", "0", "2", "4">>)
L_sep_comma == S(<<"#", "s", "e", "p", "a", "r", "a", "t", "o", "r", " ", "\\", "x", "2", "c">>)
L_sep_bad == S(<<"#", "s", "e", "p", "a", "r", "a", "t", "o", "r", " ", "\\", "x", "Z", "Z">>)
D_full == S(<<"1", "\t", "x", ",", "y">>)
D_unset == S(<<"-", "\t", "-">>)
D_short == S(<<"2">>)
D_last == S(<<"3", "\t", "z">>)

\* a two-line preamble, three data lines and a #close footer
FileRows == Text(<<L_fields, L_types, D_full, D_unset, D_last, L_close>>)
\* CR LF line ends, an empty line between the data lines, and a last line
\* that no line feed ends
FileCrLf == TextCrLf(<<L_fields, L_types, D_short, <<>>>>) \o D_last
\* directive lines only
FileHeaderOnly == Text(<<L_fields, L_types>>)
\* a three-line preamble
FileLongPreamble == Text(<<L_path, L_fields, L_types, D_full>>)
\* a file cut after its first directive line
FileTruncated == Text(<<L_fields>>)
\* an empty file
FileEmpty == <<>>
\* a #types line one name shorter than the #fields line
FileMismatch == Text(<<L_fields, L_types1, D_full>>)
\* a #separator directive whose \x escape is not followed by hex digits
FileBadSeparator == Text(<<L_sep_bad, L_fields, L_types, D_full>>)

FileContents ==
  {FileRows, FileCrLf, FileHeaderOnly, FileLongPreamble, FileTruncated, FileEmpty,
   FileMismatch, FileBadSeparator}

PathSet == {S(<<"a">>), S(<<"a", "b">>), S(<<"b">>)}

Range(f) == {f[i] : i \in DOMAIN f}

\* what a glob expansion can return: distinct paths, at least one, any order
GlobResults ==
  {q \in UNION {[1..n -> PathSet] : n \in 1..MaxFiles} :
     \A i, j \in DOMAIN q : i # j => q[i] # q[j]}

(***************************************************************************)
(* Spec: a scan, from bind to the pulls after exhaustion.                  *)
(***************************************************************************)
Init ==
  /\ glob_result \in GlobResults
  /\ fs \in [Range(glob_result) -> FileContents]
  /\ filename_param \in BOOLEAN
  /\ pc = "bind"
  /\ bind_data = InitialBindData
  /\ state = InitialGlobalState
  /\ new_handle = NoHandle
  /\ row_count = 0
  /\ output = <<>>
  /\ error = "none"
  /\ opened = <<>>
  /\ returned = <<>>
  /\ pulls = 0
  /\ extra_pulls = 0
  /\ input = <<>>
  /\ result = <<>>

Next ==
  \/ Bind
  \/ InitGlobal
  \/ OpenNextFileAssign
  \/ ExecuteFinished
  \/ ExecuteBegin
  \/ ExecuteReturnFull
  \/ ExecuteEndOfFile
  \/ ExecuteSkipLine
  \/ ExecuteDecodeLine

Spec == Init /\ [][Next]_vars

\* The steps the caller takes: DuckDB calls init once the scan is bound, and
\* the caller of the claim calls the scan function again and again.
CallerStep ==
  \/ InitGlobal
  \/ ExecuteBegin
  \/ ExecuteFinished

\* The steps inside one call of OpenNextFile or of the scan function: the
\* statements of lines 14-34 and the iterations of the loop of lines 179-270.
RunStep ==
  \/ OpenNextFileAssign
  \/ ExecuteReturnFull
  \/ ExecuteEndOfFile
  \/ ExecuteSkipLine
  \/ ExecuteDecodeLine

\* a call is running: at each of these positions exactly one RunStep is
\* enabled (the assignment, or the branch of the loop its conditions select)
Running == pc \in {"init_assign", "exec_assign", "loop"}

\* A running call is not suspended forever: weak fairness of RunStep, written
\* with Running as the enabling condition of RunStep.
RunFairness == []<>(~Running) \/ []<><<RunStep>>_vars

\* The scan under a caller that keeps pulling and a processor that keeps
\* executing the call it is in.
SpecLive == Init /\ [][Next]_vars /\ WF_vars(CallerStep) /\ RunFairness

(***************************************************************************)
(* SpecThree: the scan of three files, some of them shorter than the       *)
(* preamble of the first.                                                  *)
(***************************************************************************)
ThreeFileContents == {FileRows, FileLongPreamble, FileTruncated, FileEmpty}

\* the three paths in any order
ThreeGlobResults ==
  {g \in [1..3 -> PathSet] : \A i, j \in 1..3 : i # j => g[i] # g[j]}

InitThree ==
  /\ glob_result \in ThreeGlobResults
  /\ fs \in [PathSet -> ThreeFileContents]
  /\ filename_param \in BOOLEAN
  /\ pc = "bind"
  /\ bind_data = InitialBindData
  /\ state = InitialGlobalState
  /\ new_handle = NoHandle
  /\ row_count = 0
  /\ output = <<>>
  /\ error = "none"
  /\ opened = <<>>
  /\ returned = <<>>
  /\ pulls = 0
  /\ extra_pulls = 0
  /\ input = <<>>
  /\ result = <<>>

SpecThree == InitThree /\ [][Next]_vars

(***************************************************************************)
(* SpecHeader: ParseHeader applied to a stream.                            *)
(***************************************************************************)
\* the scan is not running
ScanIdle ==
  /\ fs = <<>>
  /\ glob_result = <<>>
  /\ filename_param = FALSE
  /\ pc = "off"
  /\ bind_data = InitialBindData
  /\ state = InitialGlobalState
  /\ new_handle = NoHandle
  /\ row_count = 0
  /\ output = <<>>
  /\ error = "none"
  /\ opened = <<>>
  /\ returned = <<>>
  /\ pulls = 0
  /\ extra_pulls = 0

HeaderLines ==
  {L_fields, L_types, L_types1, L_sep_comma, L_sep_bad, L_close, D_full, <<>>}

\* the sequences of at most n elements of set X
SeqsUpTo(X, n) == UNION {[1..m -> X] : m \in 0..n}

\* the lines q as a stream whose last line no line feed ends
Unterminated(q) == Text(SubSeq(q, 1, Len(q) - 1)) \o q[Len(q)]

HeaderStreams ==
  {Text(q) : q \in SeqsUpTo(HeaderLines, MaxStreamLines)}
    \cup {Unterminated(q) : q \in SeqsUpTo(HeaderLines, MaxStreamLines) \ {<<>>}}

HeaderInit ==
  /\ input \in HeaderStreams
  /\ result = [outcome |-> "pending"]
  /\ ScanIdle

DoParseHeader ==
  /\ result.outcome = "pending"
  /\ result' = ParseHeader(input)
  /\ UNCHANGED <<input, scan_vars>>

SpecHeader == HeaderInit /\ [][DoParseHeader]_vars

(***************************************************************************)
(* SpecRow: the row decoder applied to one data line, under the header and *)
(* the column types that ZeekScanBind derives from a preamble.             *)
(***************************************************************************)
L_unset_N == S(<<"#", "u", "n", "s", "e", "t", "_", "f", "i", "e", "l", "d", "\t", "N">>)
L_empty_X == S(<<"#", "e", "m", "p", "t", "y", "_", "f", "i", "e", "l", "d", "\t", "X">>)

RawTypes ==
  {S(<<"t", "i", "m", "e">>), S(<<"i", "n", "t", "e", "r", "v", "a", "l">>),
   S(<<"d", "o", "u", "b", "l", "e">>), S(<<"c", "o", "u", "n", "t">>),
   S(<<"i", "n", "t">>), S(<<"b", "o", "o", "l">>), S(<<"s", "t", "r", "i", "n", "g">>),
   S(<<"p", "o", "r", "t">>),
   S(<<"v", "e", "c", "t", "o", "r", "[", "s", "t", "r", "i", "n", "g", "]">>),
   S(<<"s", "e", "t", "[", "c", "o", "u", "n", "t", "]">>)}

\* vector[vector[double]] and vector[double]
T_vector_double ==
  S(<<"v", "e", "c", "t", "o", "r", "[", "d", "o", "u", "b", "l", "e", "]">>)
T_nested == S(<<"v", "e", "c", "t", "o", "r", "[">>) \o T_vector_double \o S(<<"]">>)

\* 18446744073709551616, one more than the largest uint64_t
TwoPow64Text ==
  S(<<"1", "8", "4", "4", "6", "7", "4", "4", "0", "7", "3", "7", "0", "9", "5", "5",
      "1", "6", "1", "6">>)

RowFields ==
  {S(<<"-">>), S(<<"(", "e", "m", "p", "t", "y", ")">>), S(<<"N">>), S(<<"X">>),
   S(<<"5">>), S(<<"-", "5">>), S(<<"1", ".", "5">>), S(<<"T">>),
   S(<<"a", ",", "-", ",", "b">>), S(<<"a", ",", ",", "b">>),
   S(<<"1", "2", "a", "b", "c">>), TwoPow64Text}

\* a log of one data line whose preamble has a #separator line
L_sep_x09 == S(<<"#", "s", "e", "p", "a", "r", "a", "t", "o", "r", " ", "\\", "x", "0", "9">>)
L_fields_ts == S(<<"#", "f", "i", "e", "l", "d", "s", "\t", "t", "s", "\t", "c", "o", "u", "n",
      "t", "_", "f", "i", "e", "l", "d">>)
L_types_ts == S(<<"#", "t", "y", "p", "e", "s", "\t", "t", "i", "m", "e", "\t", "c", "o", "u",
      "n", "t">>)
D_ts == S(<<"1", "2", "3", "4", "5", "6", "7", "8", "9", "0", ".", "5", "\t", "4", "2">>)

TsLog == Text(<<L_sep_x09, L_fields_ts, L_types_ts, D_ts>>)

\* the fields q joined by tabs
RECURSIVE JoinTab(_)
JoinTab(q) ==
  IF Len(q) = 1 THEN q[1] ELSE q[1] \o <<c_tab>> \o JoinTab(Tail(q))

RowLines == {JoinTab(q) : q \in SeqsUpTo(RowFields, MaxRowFields) \ {<<>>}} \cup {D_ts}

\* a preamble that declares two columns of raw types t1 and t2, with the
\* default sentinels or with the sentinels N and X
RowPreamble(custom, t1, t2) ==
  Text((IF custom THEN <<L_unset_N, L_empty_X>> ELSE <<>>)
         \o <<L_fields,
              S(<<"#", "t", "y", "p", "e", "s", "\t">>) \o t1 \o <<c_tab>> \o t2>>)

\* the header and the column types that ZeekScanBind keeps of a preamble
RowSchema(h) == [header |-> h.header, column_types |-> ColumnTypes(h.header)]

RowSchemas ==
  {RowSchema(ParseHeader(RowPreamble(custom, t1, t2))) :
     custom \in BOOLEAN, t1 \in RawTypes, t2 \in RawTypes}
    \cup {RowSchema(ParseHeader(TsLog)),
          RowSchema(ParseHeader(RowPreamble(FALSE, T_nested, T_vector_double)))}

RowInit ==
  /\ \E schema \in RowSchemas, line \in RowLines :
       input = [header |-> schema.header, column_types |-> schema.column_types,
                line |-> line]
  /\ result = [done |-> FALSE]
  /\ ScanIdle

\* lines 188-260 for one line
DecodeLine ==
  /\ ~result.done
  /\ IsDataLine(input.line)
  /\ \E reading \in ReadingsFor(input.column_types) :
       result' = [done |-> TRUE,
                  row |-> ReadRow(DecodeRow(input.line, input.header,
                                            input.column_types), reading)]
  /\ UNCHANGED <<input, scan_vars>>

SpecRow == RowInit /\ [][DecodeLine]_vars

(***************************************************************************)
(* SpecSeparator: ParseSeparator applied to a string.                      *)
(***************************************************************************)
MaxSepLen == 4

SepChars == {c_backslash, Ord("x"), Ord("t"), Ord("n"), Ord("4"), Ord("Z")}

SeparatorInit ==
  /\ input \in SeqsUpTo(SepChars, MaxSepLen)
  /\ result = [done |-> FALSE]
  /\ ScanIdle

DoParseSeparator ==
  /\ ~result.done
  /\ result' = [done |-> TRUE, r |-> ParseSeparator(input)]
  /\ UNCHANGED <<input, scan_vars>>

SpecSeparator == SeparatorInit /\ [][DoParseSeparator]_vars

(***************************************************************************)
(* SpecType: ZeekTypeToDuckDBType applied to a type name.                  *)
(***************************************************************************)
MaxTypeDepth == 2

N_vector == S(<<"v", "e", "c", "t", "o", "r">>)
N_set == S(<<"s", "e", "t">>)

BaseNames ==
  {S(<<"t", "i", "m", "e">>), S(<<"i", "n", "t", "e", "r", "v", "a", "l">>),
   S(<<"d", "o", "u", "b", "l", "e">>), S(<<"c", "o", "u", "n", "t">>),
   S(<<"i", "n", "t">>), S(<<"b", "o", "o", "l">>), S(<<"s", "t", "r", "i", "n", "g">>),
   S(<<"a", "d", "d", "r">>), S(<<"s", "u", "b", "n", "e", "t">>),
   S(<<"p", "o", "r", "t">>), S(<<"e", "n", "u", "m">>),
   S(<<"f", "r", "o", "b", "n", "i", "c", "a", "t", "e">>), N_vector, <<>>}

\* container[inner]
Wrap(container, inner) == container \o S(<<"[">>) \o inner \o S(<<"]">>)

\* the names with at most depth levels of containers
RECURSIVE NamesOfDepth(_)
NamesOfDepth(depth) ==
  IF depth = 0 THEN BaseNames
  ELSE NamesOfDepth(depth - 1)
         \cup {Wrap(c, t) : c \in {N_vector, N_set}, t \in NamesOfDepth(depth - 1)}

\* names whose brackets do not pair up
MalformedNames ==
  {N_vector \o S(<<"[">>), N_set \o S(<<"[", "i", "n", "t">>),
   Wrap(N_vector, S(<<"i", "n", "t">>)) \o S(<<"x">>),
   N_vector \o S(<<"]", "i", "n", "t", "[">>),
   S(<<"l", "i", "s", "t", "[", "i", "n", "t", "]">>),
   N_set \o S(<<"[", "i", "n", "t", "]", "]">>)}

TypeInit ==
  /\ input \in NamesOfDepth(MaxTypeDepth) \cup MalformedNames
  /\ result = [done |-> FALSE]
  /\ ScanIdle

DoResolveType ==
  /\ ~result.done
  /\ result' = [done |-> TRUE, type |-> ZeekTypeToDuckDBType(input)]
  /\ UNCHANGED <<input, scan_vars>>

SpecType == TypeInit /\ [][DoResolveType]_vars

(***************************************************************************)
(* SpecReadLine: ZeekReader::ReadLine called again and again on a stream   *)
(* of at most MaxReadBytes bytes, until it reports the end of the stream.  *)
(***************************************************************************)
MaxReadBytes == 4

ReadBytes == {Ord("a"), c_cr, c_nl}

ReadLineInit ==
  /\ input \in SeqsUpTo(ReadBytes, MaxReadBytes)
  /\ result = [lines |-> <<>>, pos |-> 0, eof |-> FALSE]
  /\ ScanIdle

\* one call of ReadLine at stream position result.pos
DoReadLine ==
  /\ ~result.eof
  /\ result' = IF ReadLine(input, result.pos).ok
                 THEN [lines |-> Append(result.lines, ReadLine(input, result.pos).line),
                       pos |-> ReadLine(input, result.pos).pos,
                       eof |-> FALSE]
                 ELSE [lines |-> result.lines,
                       pos |-> ReadLine(input, result.pos).pos,
                       eof |-> TRUE]
  /\ UNCHANGED <<input, scan_vars>>

SpecReadLine == ReadLineInit /\ [][DoReadLine]_vars

(***************************************************************************)
(* What the claims speak of.                                               *)
(***************************************************************************)
NoCr(s) == SelectSeq(s, LAMBDA c : c # c_cr)

\* the lines of a file: its bytes cut at every line feed, carriage returns
\* removed; bytes after the last line feed are a line when some remain
RECURSIVE FileLines(_)
FileLines(bytes) ==
  IF bytes = <<>> THEN <<>>
  ELSE IF Find(bytes, c_nl) = 0
    THEN IF NoCr(bytes) = <<>> THEN <<>> ELSE <<NoCr(bytes)>>
  ELSE <<NoCr(SubSeq(bytes, 1, Find(bytes, c_nl) - 1))>>
         \o FileLines(SubSeq(bytes, Find(bytes, c_nl) + 1, Len(bytes)))

\* <<path, k>> for every line k > skip of lines that is non-empty and does
\* not begin with '#', in line order
RECURSIVE DataLinesFrom(_, _, _)
DataLinesFrom(path, lines, k) ==
  IF k > Len(lines) THEN <<>>
  ELSE (IF lines[k] # <<>> /\ lines[k][1] # c_hash THEN <<<<path, k>>>> ELSE <<>>)
         \o DataLinesFrom(path, lines, k + 1)

RECURSIVE DataLinesOfFiles(_, _)
DataLinesOfFiles(paths, skip) ==
  IF paths = <<>> THEN <<>>
  ELSE DataLinesFrom(Head(paths), FileLines(fs[Head(paths)]), skip + 1)
         \o DataLinesOfFiles(Tail(paths), skip)

\* the data lines of the scan that lie after each file's skipped preamble
ExpectedRows ==
  DataLinesOfFiles(bind_data.file_paths, bind_data.header.header_line_count)

IsPrefix(a, b) == Len(a) <= Len(b) /\ SubSeq(b, 1, Len(a)) = a

Min(a, b) == IF a < b THEN a ELSE b

Scanning == pc \in {"init", "init_assign", "idle", "loop", "exec_assign"}

\* the sentinels of a header
Sentinels(header) == {header.unset_field, header.empty_field}

IsScalarType(t) ==
  t.id \in {"BIGINT", "UBIGINT", "DOUBLE", "BOOLEAN", "TIMESTAMP_TZ", "VARCHAR"}

\* the raw fields of the line handed to the row decoder
InputFields == SplitChar(input.line, input.header.separator)

\* column c of the decoded line is present and its type and text satisfy P
PresentColumn(c) == c <= Len(input.column_types) /\ c <= Len(InputFields)

(***************************************************************************)
(* C1.  In the row decoder, a present field of a list column whose whole   *)
(* text equals unset_field or empty_field is decoded as an empty, non-NULL *)
(* list.  The code decodes it as NULL: the sentinel test of lines 204-207  *)
(* comes before the switch on the column type, so AppendListValue's own    *)
(* test (lines 41-45) is never reached with a sentinel.                    *)
(***************************************************************************)
C1_ListSentinelIsEmptyList ==
  result.done =>
    \A c \in 1..Len(input.column_types) :
      (/\ PresentColumn(c)
       /\ input.column_types[c].id = "LIST"
       /\ InputFields[c] \in Sentinels(input.header))
        => result.row[c] = [k |-> "list", elems |-> <<>>]

(***************************************************************************)
(* C2.  A present field of a column of scalar type whose text equals the   *)
(* header's unset_field or empty_field is decoded as NULL, whatever the    *)
(* type and whether the sentinels are the defaults or set by directives.   *)
(***************************************************************************)
C2_ScalarSentinelIsNull ==
  result.done =>
    \A c \in 1..Len(input.column_types) :
      (/\ PresentColumn(c)
       /\ IsScalarType(input.column_types[c])
       /\ InputFields[c] \in Sentinels(input.header))
        => result.row[c] = NullValue

\* a count column holds the sentinel N that #unset_field set, and is NULL,
\* while the default sentinel "-" in a text column of the same row is kept
C2_Witness ==
  /\ result.done
  /\ input.header.unset_field = S(<<"N">>)
  /\ Len(InputFields) = 2
  /\ input.column_types[1].id = "UBIGINT"
  /\ InputFields[1] = S(<<"N">>)
  /\ result.row[1] = NullValue
  /\ input.column_types[2].id = "VARCHAR"
  /\ InputFields[2] = S(<<"-">>)
  /\ result.row[2] = VarcharValue(S(<<"-">>))

(***************************************************************************)
(* C3.  Every non-empty line that does not begin with '#' and is read      *)
(* after a file's skipped preamble gives exactly one row, and no other     *)
(* line gives one: the rows returned so far are a prefix of the data lines *)
(* in file order then line order, they are all of them once the scan is    *)
(* finished, and no pull fails.                                            *)
(***************************************************************************)
C3_OneRowPerDataLine ==
  Scanning =>
    /\ error = "none"
    /\ IsPrefix(returned \o (IF pc \in {"loop", "exec_assign"} THEN SrcOf(output) ELSE <<>>),
                ExpectedRows)
    /\ state.finished => returned = ExpectedRows

\* a finished scan of two files that returned rows of both in several pulls,
\* one of the files holding a '#' line or an empty line after its preamble
C3_Witness ==
  /\ pc = "idle"
  /\ state.finished
  /\ Len(bind_data.file_paths) = 2
  /\ pulls > 2
  /\ \E i, j \in 1..Len(returned) : returned[i][1] # returned[j][1]
  /\ \E p \in Range(bind_data.file_paths) :
       \E k \in 1..Len(FileLines(fs[p])) :
         /\ k > bind_data.header.header_line_count
         /\ ~IsDataLine(FileLines(fs[p])[k])

(***************************************************************************)
(* C4.  ParseHeader either returns a header with |fields| = |types| >= 1   *)
(* or fails with the failure of its case: missing #fields for an empty     *)
(* fields list, missing #types for non-empty fields and an empty types     *)
(* list, count mismatch for non-empty lists of different lengths.  The     *)
(* code also fails in a fourth way: std::stoi throws in ParseSeparator.    *)
(***************************************************************************)
C4_HeaderOrSpecificFailure ==
  result.outcome # "pending" =>
    \/ /\ result.outcome = "ok"
       /\ Len(result.header.fields) = Len(result.header.types)
       /\ Len(result.header.fields) >= 1
    \/ /\ result.outcome = "MissingFields"
       /\ result.header.fields = <<>>
    \/ /\ result.outcome = "MissingTypes"
       /\ result.header.fields # <<>>
       /\ result.header.types = <<>>
    \/ /\ result.outcome = "Mismatch"
       /\ result.header.fields # <<>>
       /\ result.header.types # <<>>
       /\ Len(result.header.fields) # Len(result.header.types)

(***************************************************************************)
(* C5.  When ParseHeader succeeds, header_line_count is the number of      *)
(* lines of the leading block of '#' lines, whether a data line, an empty  *)
(* line or the end of the stream ends the block.  The code gives one less  *)
(* when the end of the stream ends it.                                     *)
(***************************************************************************)
\* the number of lines at the front of lines that begin with '#'
RECURSIVE LeadingDirectives(_)
LeadingDirectives(lines) ==
  IF lines = <<>> THEN 0
  ELSE IF Head(lines) = <<>> THEN 0
  ELSE IF Head(lines)[1] # c_hash THEN 0
  ELSE 1 + LeadingDirectives(Tail(lines))

C5_HeaderLineCount ==
  result.outcome = "ok" =>
    result.header.header_line_count = LeadingDirectives(FileLines(input))

(***************************************************************************)
(* C6.  The files are read in ascending lexicographic order of their       *)
(* paths, whatever the order of the glob expansion, and the cursor opens   *)
(* each path once: the paths opened so far are the first current_file_idx  *)
(* paths of the sorted list.                                               *)
(***************************************************************************)
C6_SortedOpenedOnce ==
  pc \in {"init", "init_assign", "idle", "loop", "exec_assign"} =>
    /\ Len(bind_data.file_paths) = Len(glob_result)
    /\ Range(bind_data.file_paths) = Range(glob_result)
    /\ \A i, j \in 1..Len(bind_data.file_paths) :
         i < j => StrLess(bind_data.file_paths[i], bind_data.file_paths[j])
    /\ state.current_file_idx <= Len(bind_data.file_paths)
    /\ opened = SubSeq(bind_data.file_paths, 1, state.current_file_idx)
    /\ state.finished => opened = bind_data.file_paths

\* a finished scan whose glob expansion was not in ascending order
C6_Witness ==
  /\ state.finished
  /\ Len(glob_result) = 2
  /\ StrLess(glob_result[2], glob_result[1])
  /\ opened = <<glob_result[2], glob_result[1]>>

(***************************************************************************)
(* C7.  After opening each file, the first and every later one, the cursor *)
(* skips header_line_count lines with ReadLine (all the lines of a file    *)
(* that has fewer) before a line of the file is considered for decoding.   *)
(***************************************************************************)
C7_SkipPreambleOfEveryFile ==
  [][/\ pc \in {"init_assign", "exec_assign"} =>
          /\ state'.file_handle.open
          /\ state'.file_handle.path = new_handle.path
          /\ state'.file_handle.path = state.current_file_path
          /\ state'.file_handle.lines_read =
               Min(bind_data.header.header_line_count,
                   Len(FileLines(fs[new_handle.path])))
     /\ (pc = "loop" /\ state'.file_handle.lines_read # state.file_handle.lines_read) =>
          state.file_handle.lines_read >= bind_data.header.header_line_count
    ]_vars

\* the second file of a scan is open, its two-line preamble just skipped
C7_Witness ==
  /\ pc = "loop"
  /\ state.current_file_idx = 2
  /\ state.file_handle.path = bind_data.file_paths[2]
  /\ bind_data.header.header_line_count = 2
  /\ state.file_handle.lines_read = 2
  /\ output # <<>>

(***************************************************************************)
(* C8.  When ReadLine reports the end of the active file and unopened      *)
(* files remain, the cursor opens the next file and goes on filling the    *)
(* same batch; finished becomes true only at the end of the active file    *)
(* with current_file_idx equal to the number of files.                     *)
(***************************************************************************)
C8_NextFileSameBatch ==
  [][/\ (/\ pc = "loop"
         /\ LoopCondition
         /\ ~ReadLineOn(state.file_handle).ok
         /\ state.current_file_idx < Len(bind_data.file_paths)) =>
          /\ pc' = "exec_assign"
          /\ ~state'.finished
          /\ opened' = Append(opened, bind_data.file_paths[state.current_file_idx + 1])
          /\ output' = output /\ row_count' = row_count /\ pulls' = pulls
     /\ pc = "exec_assign" =>
          /\ pc' = "loop"
          /\ ~state'.finished
          /\ output' = output /\ row_count' = row_count /\ pulls' = pulls
     /\ (~state.finished /\ state'.finished) =>
          /\ pc = "loop"
          /\ ~ReadLineOn(state.file_handle).ok
          /\ state.current_file_idx = Len(bind_data.file_paths)
    ]_vars

\* a batch that holds rows of two files
C8_Witness ==
  /\ pc = "idle"
  /\ \E i, j \in 1..Len(output) : output[i].src[1] # output[j].src[1]

(***************************************************************************)
(* C9.  Once finished is true, every later pull returns a batch of zero    *)
(* rows, raises no error, reads and opens nothing, and leaves the scan     *)
(* state unchanged.                                                        *)
(***************************************************************************)
C9_FinishedIsIdempotent ==
  [][state.finished =>
       /\ state' = state
       /\ new_handle' = new_handle
       /\ opened' = opened
       /\ returned' = returned
       /\ error' = "none"
       /\ pulls' # pulls => output' = <<>>
    ]_vars

\* two pulls were made after a scan that returned rows had finished
C9_Witness ==
  /\ state.finished
  /\ extra_pulls = 2
  /\ returned # <<>>
  /\ output = <<>>

(***************************************************************************)
(* C10.  Every pull returns at most STANDARD_VECTOR_SIZE rows; it returns  *)
(* fewer only if the scan is finished when it returns, and an empty batch  *)
(* only when no data line is left unread in any file.                      *)
(***************************************************************************)
C10_BatchSize ==
  /\ pc \in {"loop", "exec_assign"} =>
       Len(output) = row_count /\ row_count <= STANDARD_VECTOR_SIZE
  /\ (pc = "idle" /\ pulls > 0) =>
       /\ Len(output) <= STANDARD_VECTOR_SIZE
       /\ Len(output) < STANDARD_VECTOR_SIZE => state.finished
       /\ output = <<>> => returned = ExpectedRows

\* a full batch returned by a scan that is not finished, after an earlier pull
C10_Witness ==
  /\ pc = "idle"
  /\ pulls = 2
  /\ ~state.finished
  /\ Len(output) = STANDARD_VECTOR_SIZE

(***************************************************************************)
(* C11.  A line with fewer fields than declared columns gives one row with *)
(* a value for every column: NULL in every column at or beyond the line's  *)
(* field count, and in every other column the value that the same fields   *)
(* give in a line that is not short.                                       *)
(***************************************************************************)
\* the line of the row decoder with one more field after its last one
PaddedLine == input.line \o <<input.header.separator>> \o S(<<"5">>)

C11_ShortRow ==
  result.done =>
    /\ Len(result.row) = Len(input.column_types)
    /\ \A c \in 1..Len(input.column_types) :
         IF c > Len(InputFields)
           THEN result.row[c] = NullValue
           ELSE \E reading \in ReadingsFor(input.column_types) :
                  result.row[c] =
                    ReadValue(DecodeRow(PaddedLine, input.header,
                                        input.column_types)[c], reading)

\* a line of one field under two columns: the count is decoded, the list
\* column beyond the line is NULL
C11_Witness ==
  /\ result.done
  /\ Len(input.column_types) = 2
  /\ Len(InputFields) = 1
  /\ input.column_types[2].id = "LIST"
  /\ result.row[1] = [k |-> "ubigint", wrapped |-> FALSE, digits |-> <<5>>]
  /\ result.row[2] = NullValue

(***************************************************************************)
(* C12.  In a count or int column, a field that is not a sentinel and is   *)
(* not the text of a base-10 integer of the column's type is decoded as    *)
(* NULL.  The code decodes "-5" in a count column as 2^64 - 5 and "12abc"  *)
(* as 12: std::stoull and std::stoll convert the longest numeric prefix,   *)
(* and std::stoull negates a negative number in the unsigned type.         *)
(***************************************************************************)
AllDigits(s) == s # <<>> /\ \A i \in 1..Len(s) : IsDigit(s[i])

\* the magnitude written by the digit text s
MagnitudeOf(s) == StripLeadingZeros(DigitsRun(s, 1))

\* s is the decimal text of a uint64_t
IsCountText(s) == AllDigits(s) /\ ~DigitsLess(U64MaxDigits, MagnitudeOf(s))

\* s is the decimal text of an int64_t
IsIntText(s) ==
  IF s # <<>> /\ s[1] = Ord("-")
    THEN AllDigits(Tail(s)) /\ ~DigitsLess(I64MinDigits, MagnitudeOf(Tail(s)))
    ELSE AllDigits(s) /\ ~DigitsLess(I64MaxDigits, MagnitudeOf(s))

C12_BadIntegerIsNull ==
  result.done =>
    \A c \in 1..Len(input.column_types) :
      (/\ PresentColumn(c)
       /\ InputFields[c] \notin Sentinels(input.header)
       /\ \/ input.column_types[c].id = "UBIGINT" /\ ~IsCountText(InputFields[c])
          \/ input.column_types[c].id = "BIGINT" /\ ~IsIntText(InputFields[c]))
        => result.row[c] = NullValue

(***************************************************************************)
(* C13.  For a list column and a field that is not a sentinel, the decoded *)
(* list has one entry for each element of the field, in textual order: an  *)
(* element equal to unset_field or empty_field is a NULL entry at its      *)
(* position, and every other element has the value that the inner type     *)
(* gives its text.  The elements are the non-empty pieces between          *)
(* set_separator characters; what becomes of an empty piece is C14's.      *)
(* The code fails it for a list of lists, where an element that is no      *)
(* sentinel is stored as a string_t in a list slot (C25).                  *)
(***************************************************************************)
\* the pieces of s between the occurrences of sep, empty ones included
RECURSIVE PiecesOf(_, _)
PiecesOf(s, sep) ==
  IF Find(s, sep) = 0 THEN <<s>>
  ELSE <<SubSeq(s, 1, Find(s, sep) - 1)>>
         \o PiecesOf(SubSeq(s, Find(s, sep) + 1, Len(s)), sep)

NonEmptyPiecesOf(s, sep) == SelectSeq(PiecesOf(s, sep), LAMBDA e : e # <<>>)

\* column c of the decoded line is a list column with a field that is no sentinel
ListColumn(c) ==
  /\ PresentColumn(c)
  /\ input.column_types[c].id = "LIST"
  /\ InputFields[c] \notin Sentinels(input.header)

\* the list decoded for column c has entry i right for element e
EntryIsRight(c, i, e) ==
  IF e \in Sentinels(input.header)
    THEN result.row[c].elems[i] = NullValue
    ELSE result.row[c].elems[i] =
           ConvertField(input.column_types[c].child, e, input.header)

C13_SentinelElementIsNull ==
  result.done =>
    \A c \in 1..Len(input.column_types) :
      ListColumn(c) =>
        /\ result.row[c].k = "list"
        /\ Len(result.row[c].elems)
             = Len(NonEmptyPiecesOf(InputFields[c], input.header.set_separator))
        /\ \A i \in 1..Len(result.row[c].elems) :
             EntryIsRight(c, i,
               NonEmptyPiecesOf(InputFields[c], input.header.set_separator)[i])

\* vector[string] with the unset sentinel "-": "a,-,b" is ["a", NULL, "b"]
C13_Witness ==
  /\ result.done
  /\ input.header.unset_field = S(<<"-">>)
  /\ input.header.types[1] = S(<<"v", "e", "c", "t", "o", "r", "[", "s", "t", "r", "i", "n", "g", "]">>)
  /\ InputFields[1] = S(<<"a", ",", "-", ",", "b">>)
  /\ result.row[1] = [k |-> "list",
                      elems |-> <<VarcharValue(S(<<"a">>)), NullValue,
                                  VarcharValue(S(<<"b">>))>>]

(***************************************************************************)
(* C14.  For a list column and a field that is not a sentinel, the length  *)
(* of the decoded list is the number of set_separator characters in the    *)
(* field plus one: the empty text between two separators is an element of  *)
(* its own.  The code drops it: "a,,b" is decoded as a list of 2 entries.  *)
(***************************************************************************)
\* the number of occurrences of character c in s
RECURSIVE CountOf(_, _)
CountOf(s, c) ==
  IF s = <<>> THEN 0 ELSE (IF Head(s) = c THEN 1 ELSE 0) + CountOf(Tail(s), c)

C14_ListLength ==
  result.done =>
    \A c \in 1..Len(input.column_types) :
      ListColumn(c) =>
        /\ result.row[c].k = "list"
        /\ Len(result.row[c].elems)
             = CountOf(InputFields[c], input.header.set_separator) + 1

(***************************************************************************)
(* C15.  ParseSeparator fails on no string: \t, \n and \x followed by two  *)
(* hex digits are decoded to one character and every other character,     *)
(* every other backslash sequence included, is copied unchanged.  The code *)
(* throws on \x followed by two characters of which none is a hex digit,   *)
(* and decodes \x followed by one hex digit and another character.         *)
(***************************************************************************)
\* the decoding of s that the statement above describes
RECURSIVE Unescaped(_)
UnescapedFrom(s, rest2, rest4) ==
  IF Len(s) >= 2 /\ s[1] = c_backslash /\ s[2] = Ord("t")
    THEN <<c_tab>> \o Unescaped(rest2)
  ELSE IF Len(s) >= 2 /\ s[1] = c_backslash /\ s[2] = Ord("n")
    THEN <<c_nl>> \o Unescaped(rest2)
  ELSE IF Len(s) >= 4 /\ s[1] = c_backslash /\ s[2] = Ord("x")
            /\ HexDigit(s[3]) >= 0 /\ HexDigit(s[4]) >= 0
    THEN <<16 * HexDigit(s[3]) + HexDigit(s[4])>> \o Unescaped(rest4)
  ELSE <<s[1]>> \o Unescaped(Tail(s))

Unescaped(s) ==
  IF s = <<>> THEN <<>>
  ELSE UnescapedFrom(s, SubSeq(s, 3, Len(s)), SubSeq(s, 5, Len(s)))

C15_ParseSeparatorTotal ==
  result.done => (result.r.ok /\ result.r.result = Unescaped(input))

(***************************************************************************)
(* C16.  ZeekTypeToDuckDBType gives a type for every name: time is         *)
(* timestamp with time zone; interval and double are double; count is      *)
(* uint64; int is int64; bool is boolean; string, addr, subnet, port and   *)
(* enum are text; a name that begins with vector[ or set[ is the list of   *)
(* the type of the text between its first '[' and its last ']' (of text    *)
(* when no ']' follows); any other name is text.                           *)
(***************************************************************************)
\* the text of name t between its first '[' and its last ']'
FirstOpen(t) == CHOOSE i \in 1..Len(t) : t[i] = Ord("[") /\ \A j \in 1..(i - 1) : t[j] # Ord("[")
LastClose(t) == CHOOSE i \in 1..Len(t) : t[i] = Ord("]") /\ \A j \in (i + 1)..Len(t) : t[j] # Ord("]")
Between(t) == SubSeq(t, FirstOpen(t) + 1, LastClose(t) - 1)

IsContainerName(t) ==
  \/ Len(t) >= 7 /\ SubSeq(t, 1, 7) = N_vector \o S(<<"[">>)
  \/ Len(t) >= 4 /\ SubSeq(t, 1, 4) = N_set \o S(<<"[">>)

RECURSIVE Resolved(_)
Resolved(t) ==
  IF t = S(<<"t", "i", "m", "e">>) THEN [id |-> "TIMESTAMP_TZ"]
  ELSE IF t \in {S(<<"i", "n", "t", "e", "r", "v", "a", "l">>), S(<<"d", "o", "u", "b", "l", "e">>)}
    THEN [id |-> "DOUBLE"]
  ELSE IF t = S(<<"c", "o", "u", "n", "t">>) THEN [id |-> "UBIGINT"]
  ELSE IF t = S(<<"i", "n", "t">>) THEN [id |-> "BIGINT"]
  ELSE IF t = S(<<"b", "o", "o", "l">>) THEN [id |-> "BOOLEAN"]
  ELSE IF ~IsContainerName(t) THEN [id |-> "VARCHAR"]
  ELSE IF \E i \in 1..Len(t) : t[i] = Ord("]")
    THEN [id |-> "LIST", child |-> Resolved(Between(t))]
  ELSE [id |-> "LIST", child |-> [id |-> "VARCHAR"]]

IsContainerOfT(t) == IsContainerName(t) /\ t[Len(t)] = Ord("]")

LineOfRow(r) == FileLines(fs[r.src[1]])[r.src[2]]

C18_FilenameColumn ==
  (Scanning /\ bind_data.filename_column) =>
    \A i \in 1..Len(output) :
      /\ output[i].src[1] \in Range(bind_data.file_paths)
      /\ output[i].data
           = DecodeRow(LineOfRow(output[i]), bind_data.header, bind_data.column_types)
      /\ output[i].filename = <<output[i].src[1]>>

\* a returned batch with rows of two files, each with the path of its own
\* file in the filename column
C18_Witness ==
  /\ pc = "idle"
  /\ filename_param
  /\ bind_data.filename_column
  /\ Len(bind_data.file_paths) = 2
  /\ Len(output) = 2
  /\ output[1].filename = <<bind_data.file_paths[1]>>
  /\ output[2].filename = <<bind_data.file_paths[2]>>
  /\ output[1].src[1] # output[2].src[1]

(***************************************************************************)
(* C19.  When the first path in sorted order names a file whose #fields    *)
(* and #types lists differ in length, the scan fails at bind time with the *)
(* count mismatch failure; no scan state is created, no file is opened for *)
(* reading rows and no row is produced.                                    *)
(***************************************************************************)
\* the least of the paths of the glob expansion
LeastPath == CHOOSE p \in Range(glob_result) :
               \A q \in Range(glob_result) \ {p} : StrLess(p, q)

\* the leading block of '#' lines among the lines of a file
DirectiveBlockOf(lines) == SubSeq(lines, 1, LeadingDirectives(lines))

\* the lines of the block that begin with the text prefix
LinesWith(block, prefix) ==
  SelectSeq(block, LAMBDA l : Len(l) > Len(prefix) /\ SubSeq(l, 1, Len(prefix)) = prefix)

\* the number of tab-separated names that the last such line declares
DeclaredCount(ls) == IF ls = <<>> THEN 0 ELSE CountOf(ls[Len(ls)], c_tab)

CountsDiffer(f, t) == f >= 1 /\ t >= 1 /\ f # t

HasCountMismatchIn(block) ==
  /\ LinesWith(block, S(<<"#", "s", "e", "p", "a", "r", "a", "t", "o", "r">>)) = <<>>
  /\ CountsDiffer(
       DeclaredCount(LinesWith(block, S(<<"#", "f", "i", "e", "l", "d", "s", "\t">>))),
       DeclaredCount(LinesWith(block, S(<<"#", "t", "y", "p", "e", "s", "\t">>))))

\* a file with tab-separated #fields and #types lists of different lengths
HasCountMismatch(bytes) == HasCountMismatchIn(DirectiveBlockOf(FileLines(bytes)))

C19_MismatchFailsAtBind ==
  (pc # "bind" /\ HasCountMismatch(fs[LeastPath])) =>
    /\ pc = "failed"
    /\ error = "Mismatch"
    /\ bind_data = InitialBindData
    /\ state = InitialGlobalState
    /\ new_handle = NoHandle
    /\ opened = <<>>
    /\ output = <<>>
    /\ returned = <<>>
    /\ pulls = 0

\* the scan of a sound file and of a file with the mismatch, which the glob
\* expansion returned last and the sort put first, has failed
C19_Witness ==
  /\ pc = "failed"
  /\ error = "Mismatch"
  /\ Len(glob_result) = 2
  /\ LeastPath = glob_result[2]
  /\ fs[glob_result[2]] = FileMismatch
  /\ fs[glob_result[1]] = FileRows

C21_OneHandleOpen == ~(state.file_handle.open /\ new_handle.open)

(***************************************************************************)
(* C22.  When the end of the last file sets finished, the scan state       *)
(* releases its handle: in every state with finished = TRUE the scan holds *)
(* no open handle.  The code sets finished and leaves state.file_handle    *)
(* as it is, open at the end of the last file.                             *)
(***************************************************************************)
C22_FinishedHoldsNoHandle ==
  state.finished => (~state.file_handle.open /\ ~new_handle.open)

(***************************************************************************)
(* C23.  A file with fewer lines than header_line_count, whose end is met  *)
(* while its preamble is skipped, gives no row; the scan does not fail and *)
(* is not finished by it: the next read on it reports the end of the file, *)
(* and finished is set only when every file of the list has been opened.   *)
(***************************************************************************)
\* the file at path p has fewer lines than the preamble skip asks for
ShortFile(p) == Len(FileLines(fs[p])) < bind_data.header.header_line_count

\* the handle of the scan is at the end of a short file
AtEndOfShortFile ==
  /\ ~ReadLineOn(state.file_handle).ok
  /\ state.file_handle.lines_read = Len(FileLines(fs[state.file_handle.path]))

RowsSoFar == returned \o SrcOf(output)

C23_ShortFileGivesNoRow ==
  Scanning =>
    /\ error = "none"
    /\ \A i \in 1..Len(RowsSoFar) : ~ShortFile(RowsSoFar[i][1])
    /\ (pc \in {"idle", "loop"} /\ state.file_handle.open /\ ~state.finished
          /\ ShortFile(state.file_handle.path)) => AtEndOfShortFile
    /\ state.finished =>
         /\ state.current_file_idx = Len(bind_data.file_paths)
         /\ opened = bind_data.file_paths
         /\ returned = ExpectedRows

\* a finished scan whose second file was cut inside its preamble and whose
\* first and third files gave rows
C23_Witness ==
  /\ state.finished
  /\ Len(bind_data.file_paths) = 3
  /\ fs[bind_data.file_paths[2]] = FileTruncated
  /\ \E i, j \in 1..Len(returned) :
       /\ returned[i][1] = bind_data.file_paths[1]
       /\ returned[j][1] = bind_data.file_paths[3]

\* a pull that returned to the caller with an empty batch and the scan exhausted
Done == pc = "idle" /\ state.finished /\ output = <<>> /\ pulls > 0

\* a pull is running: the scan function was entered and has not returned
InPull == pc \in {"exec_assign", "loop"}

\* C24: every pull that was entered returns to the caller, and every scan that
\* was bound and is pulled again and again eventually returns an empty batch
\* with the scan exhausted, also when a file holds only empty or '#' lines.
C24_ScanTerminates == (InPull ~> pc = "idle") /\ (pc = "init" ~> Done)

\* the scan is exhausted after a pull over a file of directive lines only
C24_Witness ==
  /\ Done
  /\ extra_pulls >= 1
  /\ \E p \in Range(bind_data.file_paths) : fs[p] = FileHeaderOnly

(***************************************************************************)
(* C25.  Every entry of a decoded list is what the row decoder gives the   *)
(* same text as a field of a column of the list's inner type, for every    *)
(* inner type ZeekTypeToDuckDBType produces, a list included.  The code    *)
(* has no LIST case for an element (part_000:68-109): under                *)
(* vector[vector[double]] the element "1.5" is stored as a string_t in a   *)
(* list slot where the field "1.5" of a vector[double] column is the list  *)
(* [1.5], and a sentinel element is NULL where the field is an empty list. *)
(***************************************************************************)
\* the text e decoded as the field of a single column of type t
AsTopLevelField(t, e) == DecodeColumn(1, <<e>>, input.header, <<t>>)

C25_ElementAsTopLevelField ==
  result.done =>
    \A c \in 1..Len(input.column_types) :
      ListColumn(c) =>
        \A i \in 1..Len(result.row[c].elems) :
          result.row[c].elems[i] =
            AsTopLevelField(input.column_types[c].child,
              NonEmptyPiecesOf(InputFields[c], input.header.set_separator)[i])

(***************************************************************************)
(* C26.  Once ZeekScanBind has returned, no step of the scan changes the   *)
(* bind data: the separators, the sentinels, the column names, the column  *)
(* types and header_line_count stay those parsed from the first file of    *)
(* the sorted list, whatever directive lines the later files hold.         *)
(***************************************************************************)
C26_BindDataFrame ==
  [][/\ pc # "bind" => bind_data' = bind_data
     /\ pc' \in {"init", "init_assign", "idle", "exec_assign", "loop"} =>
          /\ bind_data'.header = ParseHeader(fs[bind_data'.file_paths[1]]).header
          /\ bind_data'.column_types = ColumnTypes(bind_data'.header)]_vars

\* a scan that has read a row of a second file whose own directive block
\* has a #separator line that ParseHeader rejects
C26_Witness ==
  /\ pc = "idle"
  /\ state.finished
  /\ Len(bind_data.file_paths) = 2
  /\ fs[bind_data.file_paths[2]] = FileBadSeparator
  /\ \E i \in 1..Len(returned) : returned[i][1] = bind_data.file_paths[2]
  /\ bind_data.header = ParseHeader(fs[bind_data.file_paths[1]]).header

(***************************************************************************)
(* C27.  ParseHeader splits the value of a #fields or #types line on the   *)
(* field separator in effect when the line is processed: the tab, or the   *)
(* character of the last #separator line before it.  A #separator line     *)
(* after it leaves the stored list as it was split, and is the separator   *)
(* of the returned header, the one data rows are split on.                 *)
(***************************************************************************)
P_fields == S(<<"#", "f", "i", "e", "l", "d", "s", "\t">>)
P_types == S(<<"#", "t", "y", "p", "e", "s", "\t">>)
P_separator == S(<<"#", "s", "e", "p", "a", "r", "a", "t", "o", "r", " ">>)

\* the text of line l after prefix
ValueAfter(l, prefix) == SubSeq(l, Len(prefix) + 1, Len(l))

\* the field separator in effect after the first n lines of block
RECURSIVE SeparatorAfter(_, _)
SeparatorAfter(block, n) ==
  IF n = 0 THEN c_tab
  ELSE IF /\ StartsWith(block[n], P_separator)
          /\ ParseSeparator(ValueAfter(block[n], P_separator)).ok
          /\ ParseSeparator(ValueAfter(block[n], P_separator)).result # <<>>
    THEN ParseSeparator(ValueAfter(block[n], P_separator)).result[1]
  ELSE SeparatorAfter(block, n - 1)

\* the index of the last of the first n lines of block that begins with
\* prefix, 0 when there is none
RECURSIVE LastWith(_, _, _)
LastWith(block, prefix, n) ==
  IF n = 0 THEN 0
  ELSE IF StartsWith(block[n], prefix) THEN n
  ELSE LastWith(block, prefix, n - 1)

\* the value of line i of block split on the separator in effect before it
SplitInEffect(block, prefix, i) ==
  IF i = 0 THEN <<>>
  ELSE SplitChar(ValueAfter(block[i], prefix), SeparatorAfter(block, i - 1))

HeaderOfBlock(h, block) ==
  /\ h.fields = SplitInEffect(block, P_fields, LastWith(block, P_fields, Len(block)))
  /\ h.types = SplitInEffect(block, P_types, LastWith(block, P_types, Len(block)))
  /\ h.separator = SeparatorAfter(block, Len(block))

C27_SeparatorInEffect ==
  result.outcome \notin {"pending", "InvalidArgument"} =>
    HeaderOfBlock(result.header, DirectiveBlockOf(FileLines(input)))

\* #separator \x2c after #fields and #types: the lists stay split on the
\* tab and the separator of the header is the comma
C27_Witness ==
  /\ input = Text(<<L_fields, L_types, L_sep_comma>>)
  /\ result.outcome = "ok"
  /\ result.header.fields = <<S(<<"a">>), S(<<"b">>)>>
  /\ Len(result.header.types) = 2
  /\ result.header.separator = c_comma

(***************************************************************************)
(* C28.  The lines ReadLine returns are the bytes of the stream cut at     *)
(* every line feed, with a carriage return removed only where it stands    *)
(* immediately before the line feed and every other byte kept; bytes after *)
(* the last line feed are a last line when there are some, and after it    *)
(* ReadLine reports the end of the stream.  The code drops every carriage  *)
(* return: "a\rb" is read as "ab", and a last line of "\r" is not a line.  *)
(***************************************************************************)
\* line l without a carriage return at its end
WithoutTrailingCr(l) ==
  IF l # <<>> /\ l[Len(l)] = c_cr THEN SubSeq(l, 1, Len(l) - 1) ELSE l

RECURSIVE LinesKeepingCr(_)
LinesKeepingCr(bytes) ==
  IF bytes = <<>> THEN <<>>
  ELSE IF Find(bytes, c_nl) = 0 THEN <<bytes>>
  ELSE <<WithoutTrailingCr(SubSeq(bytes, 1, Find(bytes, c_nl) - 1))>>
         \o LinesKeepingCr(SubSeq(bytes, Find(bytes, c_nl) + 1, Len(bytes)))

C28_ReadLineKeepsInnerCr ==
  /\ IsPrefix(result.lines, LinesKeepingCr(input))
  /\ result.eof => result.lines = LinesKeepingCr(input)

(***************************************************************************)
(* C29.  The preamble of an opened file is skipped by count alone: the     *)
(* first header_line_count lines of the file (all of them when it has      *)
(* fewer) are consumed whatever they hold.  In a file whose own block of   *)
(* directive lines is shorter, the data lines among the skipped lines give *)
(* no row; in a file whose own block is longer, the directive lines after  *)
(* the skipped ones give no row either, and every data line after them     *)
(* gives one.                                                              *)
(***************************************************************************)
\* line k of lines is non-empty and does not begin with '#'
DataLineAt(lines, k) ==
  /\ k \in 1..Len(lines)
  /\ lines[k] # <<>>
  /\ lines[k][1] # c_hash

\* <<p, k>> is the source of no row among rows
NoRowOf(rows, p, k) == \A i \in 1..Len(rows) : rows[i] # <<p, k>>

\* the rows of the file at path p, whose lines are lines, under a preamble
\* count of skip
SkippedByCount(rows, p, lines, skip) ==
  /\ \A k \in 1..skip : NoRowOf(rows, p, k)
  /\ \A k \in (skip + 1)..LeadingDirectives(lines) : NoRowOf(rows, p, k)
  /\ state.finished =>
       \A k \in (skip + 1)..Len(lines) : DataLineAt(lines, k) => ~NoRowOf(rows, p, k)

C29_SkipByCount ==
  Scanning =>
    /\ (pc \in {"idle", "loop"} /\ state.file_handle.open) =>
          state.file_handle.lines_read >=
            Min(bind_data.header.header_line_count,
                Len(FileLines(fs[state.file_handle.path])))
    /\ \A p \in Range(bind_data.file_paths) :
         SkippedByCount(RowsSoFar, p, FileLines(fs[p]),
                        bind_data.header.header_line_count)

\* a finished scan whose first file has a preamble of three lines and whose
\* second file has two directive lines: the third line of the second file
\* is a data line and gave no row, the fourth gave one
C29_Witness ==
  /\ pc = "idle"
  /\ state.finished
  /\ Len(bind_data.file_paths) = 2
  /\ bind_data.header.header_line_count = 3
  /\ LeadingDirectives(FileLines(fs[bind_data.file_paths[2]])) = 2
  /\ DataLineAt(FileLines(fs[bind_data.file_paths[2]]), 3)
  /\ NoRowOf(returned, bind_data.file_paths[2], 3)
  /\ ~NoRowOf(returned, bind_data.file_paths[2], 4)

(***************************************************************************)
(* C30.  header_line_count = line_count - 1 is an unsigned subtraction.    *)
(* No header that ParseHeader returns holds a wrapped value: when no line  *)
(* was read, the stream being empty, ParseHeader fails for the missing     *)
(* #fields line, and every returned header has header_line_count one less  *)
(* than the number of lines read, at least 1 and at most that number.      *)
(***************************************************************************)
\* the number of lines the loop of ParseHeader reads from the stream: the
\* leading directive lines and the line that ends them, when there is one
LinesRead(bytes) ==
  Min(LeadingDirectives(FileLines(bytes)) + 1, Len(FileLines(bytes)))

C30_NoWrappedCount ==
  result.outcome # "pending" =>
    /\ LinesRead(input) = 0 => result.outcome = "MissingFields"
    /\ result.outcome = "ok" =>
         /\ result.header.header_line_count = LinesRead(input) - 1
         /\ 1 <= result.header.header_line_count
         /\ result.header.header_line_count <= LinesRead(input)

\* the empty stream: the subtraction wrapped, and ParseHeader failed for the
\* missing #fields line
C30_Witness ==
  /\ input = <<>>
  /\ result.outcome = "MissingFields"
  /\ result.line_count = 0
  /\ result.header.header_line_count = IdxWrap(0 - 1)
  /\ result.header.header_line_count > 0

====
